---- MODULE Spec2Model ----
(***************************************************************************)
(* Client-side entity-state synchronisation of the Blossomer GTM frontend: *)
(* response normalisation (campaignService / personaService), the auth     *)
(* hook (lib/auth.ts), the campaign mutations (hooks/useCampaigns.ts), the *)
(* Draft Manager and the AccountDetail edit handlers.                      *)
(***************************************************************************)
EXTENDS Integers, Sequences, FiniteSets, TLC

(***************************************************************************)
(* JSON-like values.  A JavaScript object is a function from a finite set  *)
(* of keys to values; every value is a record of one shape so that any two *)
(* values can be compared.                                                 *)
(***************************************************************************)
EmptyMap == [k \in {} |-> 0]

S(v) == [tag |-> "s", s |-> v, m |-> EmptyMap, l |-> <<>>]

M(m) == [tag |-> "m", s |-> "", m |-> m, l |-> <<>>]

L(l) == [tag |-> "l", s |-> "", m |-> EmptyMap, l |-> l]

Undefined == [tag |-> "u", s |-> "", m |-> EmptyMap, l |-> <<>>]

\* obj.key, undefined when the key is absent
Get(obj, k) == IF k \in DOMAIN obj THEN obj[k] ELSE Undefined

\* { ...a, ...b }
Spread(a, b) ==
  [k \in DOMAIN a \cup DOMAIN b |-> IF k \in DOMAIN b THEN b[k] ELSE a[k]]

\* { [k]: v }
One(k, v) == [x \in {k} |-> v]

(***************************************************************************)
(* Key Normalizer (lib/utils transformKeysToCamelCase).  Keys are spelled  *)
(* out character by character so that the conversion is computed.          *)
(***************************************************************************)
Keys ==
  {"id", "type", "name", "data", "target_persona_name", "targetPersonaName",
   "x_y", "xY", "_x", "X", "firmographics", "buyingSignals", "buying_signals",
   "tempId", "industry", "business_model", "businessModel", "title",
   "detection_method", "detectionMethod"}

Spell ==
  [k \in Keys |->
     CASE k = "id" -> <<"i", "d">>
       [] k = "type" -> <<"t", "y", "p", "e">>
       [] k = "name" -> <<"n", "a", "m", "e">>
       [] k = "data" -> <<"d", "a", "t", "a">>
       [] k = "target_persona_name" ->
            <<"t", "a", "r", "g", "e", "t", "_", "p", "e", "r", "s", "o", "n",
              "a", "_", "n", "a", "m", "e">>
       [] k = "targetPersonaName" ->
            <<"t", "a", "r", "g", "e", "t", "P", "e", "r", "s", "o", "n", "a",
              "N", "a", "m", "e">>
       [] k = "x_y" -> <<"x", "_", "y">>
       [] k = "xY" -> <<"x", "Y">>
       [] k = "_x" -> <<"_", "x">>
       [] k = "X" -> <<"X">>
       [] k = "firmographics" ->
            <<"f", "i", "r", "m", "o", "g", "r", "a", "p", "h", "i", "c", "s">>
       [] k = "buyingSignals" ->
            <<"b", "u", "y", "i", "n", "g", "S", "i", "g", "n", "a", "l", "s">>
       [] k = "buying_signals" ->
            <<"b", "u", "y", "i", "n", "g", "_", "s", "i", "g", "n", "a", "l", "s">>
       [] k = "tempId" -> <<"t", "e", "m", "p", "I", "d">>
       [] k = "industry" -> <<"i", "n", "d", "u", "s", "t", "r", "y">>
       [] k = "business_model" ->
            <<"b", "u", "s", "i", "n", "e", "s", "s", "_", "m", "o", "d", "e", "l">>
       [] k = "businessModel" ->
            <<"b", "u", "s", "i", "n", "e", "s", "s", "M", "o", "d", "e", "l">>
       [] k = "title" -> <<"t", "i", "t", "l", "e">>
       [] k = "detection_method" ->
            <<"d", "e", "t", "e", "c", "t", "i", "o", "n", "_", "m", "e", "t", "h",
              "o", "d">>
       [] k = "detectionMethod" ->
            <<"d", "e", "t", "e", "c", "t", "i", "o", "n", "M", "e", "t", "h", "o",
              "d">>]

LowerCase == {"a", "b", "c", "d", "e", "f", "g", "h", "i", "l", "m", "n", "o",
              "p", "r", "s", "t", "u", "x", "y"}

ToUpperCase(c) ==
  CASE c = "p" -> "P" [] c = "n" -> "N" [] c = "x" -> "X" [] c = "y" -> "Y"
    [] c = "s" -> "S" [] c = "i" -> "I" [] c = "m" -> "M" [] OTHER -> c

\* str.replace(/_([a-z])/g, (_, c) => c.toUpperCase()) on a spelled string
RECURSIVE SnakeToCamel(_)
SnakeToCamel(str) ==
  IF str = <<>> THEN <<>>
  ELSE IF Len(str) >= 2 /\ str[1] = "_" /\ str[2] \in LowerCase
       THEN <<ToUpperCase(str[2])>> \o SnakeToCamel(SubSeq(str, 3, Len(str)))
       ELSE <<str[1]>> \o SnakeToCamel(Tail(str))

\* the key a key is rewritten to, tabulated over the key universe
CamelTable ==
  [k \in Keys |-> CHOOSE c \in Keys : Spell[c] = SnakeToCamel(Spell[k])]

CamelKey(k) == CamelTable[k]

\* Object.keys order of an object, as far as two keys of it can collide:
\* the key listed later here is written later and wins.
KeyOrder ==
  <<"id", "type", "name", "data", "tempId", "firmographics", "industry",
    "business_model", "businessModel", "buying_signals", "buyingSignals", "title",
    "detection_method", "detectionMethod", "target_persona_name",
    "targetPersonaName", "x_y", "xY", "_x", "X">>

KeyIndex(k) == CHOOSE i \in 1..Len(KeyOrder) : KeyOrder[i] = k

LastSource(obj, c) ==
  CHOOSE k \in DOMAIN obj :
    /\ CamelKey(k) = c
    /\ \A j \in DOMAIN obj : CamelKey(j) = c => KeyIndex(j) <= KeyIndex(k)

RECURSIVE transformKeysToCamelCase(_)
transformKeysToCamelCase(v) ==
  CASE v.tag = "m" ->
         M([c \in {CamelKey(k) : k \in DOMAIN v.m} |->
              transformKeysToCamelCase(v.m[LastSource(v.m, c)])])
    [] v.tag = "l" ->
         L([i \in DOMAIN v.l |-> transformKeysToCamelCase(v.l[i])])
    [] OTHER -> v

(***************************************************************************)
(* Response Normalizers.                                                   *)
(***************************************************************************)
\* campaign.data || {}
DataOrEmpty(entity) ==
  IF "data" \in DOMAIN entity /\ entity["data"].tag = "m"
  THEN entity["data"] ELSE M(EmptyMap)

\* mutant: the re-assertion of data (campaignService.ts line 19) is left out
normalizeCampaignResponse_NoDataReassert(campaign) ==
  LET data == transformKeysToCamelCase(DataOrEmpty(campaign)).m
  IN  Spread(Spread(campaign, data), One("type", Get(campaign, "type")))

\* mutant: the spreads of lines 17 and 18 are swapped, so top-level wins
normalizeCampaignResponse_SpreadSwapped(campaign) ==
  LET data == transformKeysToCamelCase(DataOrEmpty(campaign)).m
  IN  Spread(Spread(Spread(data, campaign), One("data", M(data))),
             One("type", Get(campaign, "type")))

normalizeCampaignResponse(campaign) ==
  LET data == transformKeysToCamelCase(DataOrEmpty(campaign)).m
  IN  Spread(Spread(Spread(campaign, data), One("data", M(data))),
             One("type", Get(campaign, "type")))

normalizePersonaResponse(persona) ==
  LET data == transformKeysToCamelCase(DataOrEmpty(persona)).m
  IN  Spread(Spread(persona, data), One("data", M(data)))

(***************************************************************************)
(* State.                                                                  *)
(***************************************************************************)
VARIABLES
  raw, kind, out, out2,          \* normalizer: input, entity kind, results
  user,                          \* useUser(): the identity provider's user
  mounted,                       \* which useAuthState instances are mounted
  seenUser,                      \* the user of each instance's last render
  token, loading,                \* useState of each instance
  prevAuthState,                 \* useRef of each instance
  authState,                     \* the authState of each instance's last render
  fetches,                       \* getAuthJson() calls in flight
  globalAuthState,               \* module-level store of lib/auth
  cache,                         \* QueryClient: the cached queries
  mutations,                     \* campaign mutations in flight
  queries,                       \* campaign queries in flight
  drafts,                        \* DraftManager: kind -> list of drafts
  savedAs,                       \* history: the kind each tempId was saved under
  route,                         \* AccountDetail: the :id route parameter
  firmographicsModalOpen,        \* AccountDetail: useState
  buyingSignalsModalOpen,        \* AccountDetail: useState
  accountUpdates,                \* updateWithFieldPreservation calls in flight
  lastCall,                      \* history: the updateDraftPreserveFields call
                                 \* of the last step and what it returned
  observers,                     \* history: instances mounted at the last crossing
  clearsThisCrossing,            \* history: clears since the last crossing
  flippedSinceClear,             \* history: a crossing since the last wipe
  calls,                         \* history: calls made by the last step
  lastCleared,                   \* history: cache keys dropped by the last step
  pendingGenerated,              \* the AI-generation result held by the page
  generations,                   \* invocations of generation, with history
  hasOverview,                   \* the company overview is loaded
  isCreationModalOpen,           \* AccountDetail: the creation modal
  response,                      \* parseRateLimitHeaders: the response headers
  rateLimitInfo,                 \* parseRateLimitHeaders: the result
  localStorage,                  \* the 'target_accounts' item of localStorage
  lsResult,                      \* the outcome of the last local-storage call
  issued,                        \* history: updates in flight, in issue order
  lastArrived,                   \* history: last update response per campaign
  overtaken,                     \* history: updates a later one completed before
  stale,                         \* token fetches in flight whose effect was cleaned up
  buyingSignals                  \* AccountDetail: the buying signals it shows

utilVars == <<response, rateLimitInfo, localStorage, lsResult>>

orderVars == <<issued, lastArrived, overtaken>>

coreVars == <<raw, kind, out, out2, utilVars, stale, buyingSignals>>

\* the variables the auth hook leaves alone
quietVars == <<raw, kind, out, out2, utilVars, orderVars, buyingSignals>>

normVars == <<raw, kind, out, out2, utilVars, orderVars, stale, buyingSignals>>

hookVars == <<mounted, seenUser, token, loading, prevAuthState, authState,
              fetches, globalAuthState>>

identityVars == <<user>>

cacheVars == <<cache, mutations, queries>>

historyVars == <<observers, clearsThisCrossing, flippedSinceClear, calls,
                 lastCleared>>

draftVars == <<drafts, savedAs>>

genVars == <<pendingGenerated, generations, hasOverview, isCreationModalOpen>>

pageVars == <<route, firmographicsModalOpen, buyingSignalsModalOpen,
              accountUpdates, lastCall, genVars>>

vars == <<normVars, identityVars, hookVars, cacheVars, draftVars, pageVars,
          historyVars>>

NoEntity == EmptyMap

(***************************************************************************)
(* Bounds and program constants.                                           *)
(***************************************************************************)
MaxHooks == 2

MaxInFlight == 1

MaxDrafts == 1

MaxStoredDrafts == 2

MaxGenerations == 2

ClearCountCap == 3

Hooks == 1..MaxHooks

Users == {"u1", "u2"}

\* useUser() returns null
NoUser == [id |-> "none", obj |-> 0]

\* seenUser of an instance that has not rendered
Unrendered == [id |-> "unrendered", obj |-> 0]

NullToken == "null"

\* the accessToken user.getAuthJson() yields for a user
TokenOf == [u \in Users |-> IF u = "u1" THEN "tok_u1" ELSE "tok_u2"]

InitialAuthState ==
  [isAuthenticated |-> FALSE, token |-> NullToken, userInfo |-> "null"]

CAMPAIGN_QUERY_KEY == "campaigns"

CampaignIds == {"c1"}

ExampleData == One("target_persona_name", S("VP Sales"))

\* campaigns edited concurrently
ConcurrentIds == {"c1", "c2"}

NoArrival == [arrived |-> FALSE, data |-> EmptyMap, late |-> FALSE]

CampaignData == {ExampleData, One("x_y", S("v2"))}

Kinds == {"account", "persona"}

TempIdOrder == <<"temp_1", "temp_2", "temp_3", "temp_4">>

TempIds == {TempIdOrder[i] : i \in DOMAIN TempIdOrder}

\* a tempId no stored draft uses
FreshTempId(used) ==
  TempIdOrder[CHOOSE i \in DOMAIN TempIdOrder :
                /\ TempIdOrder[i] \notin used
                /\ \A j \in 1..(i - 1) : TempIdOrder[j] \in used]

(***************************************************************************)
(* Rate limit helper (lib/auth).                                           *)
(***************************************************************************)
MaxDigits == 2

Digits == {"0", "7"}

DigitValue(c) == IF c = "7" THEN 7 ELSE 0

\* a header the response does not carry: headers.get returns null
NoHeader == [present |-> FALSE, value |-> <<>>]

Header(str) == [present |-> TRUE, value |-> str]

RECURSIVE DigitStrings(_)
DigitStrings(n) ==
  IF n = 0 THEN {<<>>}
  ELSE DigitStrings(n - 1)
         \cup {<<c>> \o str : c \in Digits,
                               str \in {t \in DigitStrings(n - 1) : Len(t) = n - 1}}

HeaderValues == {NoHeader} \cup {Header(str) : str \in DigitStrings(MaxDigits)}

\* a string is truthy when it is not empty, null is falsy
Truthy(h) == h.present /\ h.value # <<>>

NaN == -1

\* parseInt(str, 10) of a string of decimal digits, read from the left
RECURSIVE ParseIntFrom(_, _)
ParseIntFrom(acc, str) ==
  IF str = <<>> THEN acc
  ELSE ParseIntFrom(acc * 10 + DigitValue(Head(str)), Tail(str))

parseInt(str) == IF str = <<>> THEN NaN ELSE ParseIntFrom(0, str)

UndefinedNumber == [defined |-> FALSE, n |-> 0]

Number(n) == [defined |-> TRUE, n |-> n]

NullInfo ==
  [parsed |-> TRUE, null |-> TRUE, limit |-> 0, remaining |-> 0, reset |-> 0,
   retryAfter |-> UndefinedNumber]

Unparsed == [NullInfo EXCEPT !.parsed = FALSE]

\* mutant: the parsed numbers are tested for truthiness, so 0 counts as absent
parseRateLimitHeaders_NumericTruthiness(resp) ==
  IF /\ Truthy(resp.limit) /\ parseInt(resp.limit.value) # 0
     /\ Truthy(resp.remaining) /\ parseInt(resp.remaining.value) # 0
     /\ Truthy(resp.reset) /\ parseInt(resp.reset.value) # 0
  THEN [parsed |-> TRUE, null |-> FALSE,
        limit |-> parseInt(resp.limit.value),
        remaining |-> parseInt(resp.remaining.value),
        reset |-> parseInt(resp.reset.value),
        retryAfter |-> IF Truthy(resp.retryAfter)
                       THEN Number(parseInt(resp.retryAfter.value))
                       ELSE UndefinedNumber]
  ELSE NullInfo

parseRateLimitHeaders(resp) ==
  IF Truthy(resp.limit) /\ Truthy(resp.remaining) /\ Truthy(resp.reset)
  THEN [parsed |-> TRUE, null |-> FALSE,
        limit |-> parseInt(resp.limit.value),
        remaining |-> parseInt(resp.remaining.value),
        reset |-> parseInt(resp.reset.value),
        retryAfter |-> IF Truthy(resp.retryAfter)
                       THEN Number(parseInt(resp.retryAfter.value))
                       ELSE UndefinedNumber]
  ELSE NullInfo

NoResponse ==
  [limit |-> NoHeader, remaining |-> NoHeader, reset |-> NoHeader,
   retryAfter |-> NoHeader]

Responses ==
  [limit : HeaderValues, remaining : HeaderValues, reset : HeaderValues,
   retryAfter : HeaderValues]

(***************************************************************************)
(* Local storage of target accounts (lib/accountService).                  *)
(***************************************************************************)
MaxPersonas == 1

AccountIds == {"a1", "a2"}

PersonaIds == {"p1", "p2"}

\* account.personas is optional
NoPersonas == [defined |-> FALSE, list |-> <<>>]

PersonaList(list) == [defined |-> TRUE, list |-> list]

TargetPersonas == [id : PersonaIds, name : {"a", "b"}]

\* accounts passed to saveTargetAccount
NewTargetAccounts ==
  {[id |-> a, name |-> IF a = "a1" THEN "Acme" ELSE "Globex", personas |-> p] :
     a \in AccountIds, p \in {NoPersonas, PersonaList(<<>>)}}

\* localStorage.getItem('target_accounts') returns null
NothingStored == [state |-> "absent", accounts |-> <<>>]

\* the item holds text that is not JSON
CorruptedItem == [state |-> "corrupt", accounts |-> <<>>]

\* the item holds JSON.stringify(accounts)
Stringify(accounts) == [state |-> "json", accounts |-> accounts]

NoResult ==
  [op |-> "none", accountId |-> "", personaId |-> "", threw |-> FALSE,
   value |-> <<>>]

\* the call returned value (<<>> for a void function)
Returned(op, accountId, personaId, value) ==
  [op |-> op, accountId |-> accountId, personaId |-> personaId,
   threw |-> FALSE, value |-> value]

\* the call raised to its caller
Threw(op, accountId, personaId) ==
  [op |-> op, accountId |-> accountId, personaId |-> personaId,
   threw |-> TRUE, value |-> <<>>]

\* stored ? JSON.parse(stored) : []  -- JSON.parse throws on text that is
\* not JSON, and nothing catches it
getStoredTargetAccounts(item) ==
  IF item.state = "absent" THEN [threw |-> FALSE, value |-> <<>>]
  ELSE IF item.state = "corrupt" THEN [threw |-> TRUE, value |-> <<>>]
  ELSE [threw |-> FALSE, value |-> item.accounts]

\* accounts.findIndex(p => p.id === id), 0 for -1
FindIndex(list, id) ==
  LET idx == {i \in DOMAIN list : list[i].id = id}
  IN  IF idx = {} THEN 0 ELSE CHOOSE i \in idx : \A j \in idx : i <= j

\* mutant: the account is pushed whether or not its id is stored
WithAccount_AlwaysPush(accounts, account) == Append(accounts, account)

\* the list saveTargetAccount writes: the account replaces the one with its
\* id or is pushed
WithAccount(accounts, account) ==
  LET existingIndex == FindIndex(accounts, account.id)
  IN  IF existingIndex > 0 THEN [accounts EXCEPT ![existingIndex] = account]
      ELSE Append(accounts, account)

lsFrame ==
  <<raw, kind, out, out2, response, rateLimitInfo, orderVars, stale, buyingSignals,
                 identityVars,
    hookVars, cacheVars, draftVars, pageVars, historyVars>>

ReadStoredTargetAccounts ==
  LET stored == getStoredTargetAccounts(localStorage)
  IN  /\ lsResult' = IF stored.threw THEN Threw("getStoredTargetAccounts", "", "")
                      ELSE Returned("getStoredTargetAccounts", "", "", stored.value)
      /\ UNCHANGED <<localStorage, lsFrame>>

saveTargetAccount(account) ==
  LET stored == getStoredTargetAccounts(localStorage)
  IN  /\ IF stored.threw
         THEN /\ lsResult' = Threw("saveTargetAccount", account.id, "")
              /\ UNCHANGED localStorage
         ELSE /\ localStorage' = Stringify(WithAccount(stored.value, account))
              /\ lsResult' = Returned("saveTargetAccount", account.id, "", <<>>)
      /\ UNCHANGED lsFrame

deleteTargetAccount(id) ==
  LET stored == getStoredTargetAccounts(localStorage)
  IN  /\ IF stored.threw
         THEN /\ lsResult' = Threw("deleteTargetAccount", id, "")
              /\ UNCHANGED localStorage
         ELSE /\ localStorage' =
                   Stringify(SelectSeq(stored.value, LAMBDA p : p.id # id))
              /\ lsResult' = Returned("deleteTargetAccount", id, "", <<>>)
      /\ UNCHANGED lsFrame

\* account?.personas || []
getPersonasForTargetAccount(accountId) ==
  LET stored == getStoredTargetAccounts(localStorage)
      idx == FindIndex(stored.value, accountId)
  IN  /\ lsResult' =
           IF stored.threw THEN Threw("getPersonasForTargetAccount", accountId, "")
           ELSE Returned("getPersonasForTargetAccount", accountId, "",
                         IF idx = 0 THEN <<>>
                         ELSE stored.value[idx].personas.list)
      /\ UNCHANGED <<localStorage, lsFrame>>

\* mutant: a missing account is created to hold the persona
addPersonaToTargetAccount_Upsert(accountId, persona) ==
  LET stored == getStoredTargetAccounts(localStorage)
      idx == FindIndex(stored.value, accountId)
  IN  /\ ~stored.threw
      /\ idx > 0 => Len(stored.value[idx].personas.list) < MaxPersonas
      /\ localStorage' =
           Stringify(WithAccount(stored.value,
             [id |-> accountId, name |-> "",
              personas |-> PersonaList(
                 IF idx = 0 THEN <<persona>>
                 ELSE Append(stored.value[idx].personas.list, persona))]))
      /\ lsResult' = Returned("addPersonaToTargetAccount", accountId, persona.id, <<>>)
      /\ UNCHANGED lsFrame

addPersonaToTargetAccount(accountId, persona) ==
  LET stored == getStoredTargetAccounts(localStorage)
      idx == FindIndex(stored.value, accountId)
  IN  /\ idx > 0 => Len(stored.value[idx].personas.list) < MaxPersonas
      /\ IF stored.threw
         THEN /\ lsResult' = Threw("addPersonaToTargetAccount", accountId, persona.id)
              /\ UNCHANGED localStorage
         ELSE /\ lsResult' =
                   Returned("addPersonaToTargetAccount", accountId, persona.id, <<>>)
              /\ IF idx = 0 THEN UNCHANGED localStorage
                 ELSE localStorage' =
                        Stringify(WithAccount(stored.value,
                          [stored.value[idx] EXCEPT !.personas =
                             PersonaList(Append(@.list, persona))]))
      /\ UNCHANGED lsFrame

updatePersonaForTargetAccount(accountId, persona) ==
  LET stored == getStoredTargetAccounts(localStorage)
      idx == FindIndex(stored.value, accountId)
  IN  /\ IF stored.threw
         THEN /\ lsResult' =
                   Threw("updatePersonaForTargetAccount", accountId, persona.id)
              /\ UNCHANGED localStorage
         ELSE /\ lsResult' =
                   Returned("updatePersonaForTargetAccount", accountId, persona.id,
                            <<>>)
              /\ IF idx = 0 THEN UNCHANGED localStorage
                 ELSE LET account == stored.value[idx]
                          personaIdx == FindIndex(account.personas.list, persona.id)
                      IN  IF ~account.personas.defined \/ personaIdx = 0
                          THEN UNCHANGED localStorage
                          ELSE localStorage' =
                                 Stringify(WithAccount(stored.value,
                                   [account EXCEPT
                                      !.personas.list[personaIdx] = persona]))
      /\ UNCHANGED lsFrame

\* mutant: the persona is removed from every stored account
deletePersonaFromTargetAccount_FromAll(accountId, personaId) ==
  LET stored == getStoredTargetAccounts(localStorage)
  IN  /\ ~stored.threw
      /\ localStorage' =
           Stringify([i \in DOMAIN stored.value |->
                        IF stored.value[i].personas.defined
                        THEN [stored.value[i] EXCEPT !.personas.list =
                                SelectSeq(@, LAMBDA p : p.id # personaId)]
                        ELSE stored.value[i]])
      /\ lsResult' = Returned("deletePersonaFromTargetAccount", accountId, personaId,
                              <<>>)
      /\ UNCHANGED lsFrame

deletePersonaFromTargetAccount(accountId, personaId) ==
  LET stored == getStoredTargetAccounts(localStorage)
      idx == FindIndex(stored.value, accountId)
  IN  /\ IF stored.threw
         THEN /\ lsResult' =
                   Threw("deletePersonaFromTargetAccount", accountId, personaId)
              /\ UNCHANGED localStorage
         ELSE /\ lsResult' =
                   Returned("deletePersonaFromTargetAccount", accountId, personaId,
                            <<>>)
              /\ IF idx = 0 THEN UNCHANGED localStorage
                 ELSE LET account == stored.value[idx]
                      IN  IF ~account.personas.defined
                          THEN UNCHANGED localStorage
                          ELSE localStorage' =
                                 Stringify(WithAccount(stored.value,
                                   [account EXCEPT !.personas.list =
                                      SelectSeq(@, LAMBDA p : p.id # personaId)]))
      /\ UNCHANGED lsFrame

\* accounts.forEach(account => account.personas.forEach(persona => push))
RECURSIVE AllPersonasOf(_)
AllPersonasOf(accounts) ==
  IF accounts = <<>> THEN <<>>
  ELSE LET account == Head(accounts)
       IN  [j \in DOMAIN account.personas.list |->
              [persona |-> account.personas.list[j], accountId |-> account.id,
               accountName |-> account.name]]
             \o AllPersonasOf(Tail(accounts))

getAllPersonas ==
  LET stored == getStoredTargetAccounts(localStorage)
  IN  /\ lsResult' = IF stored.threw THEN Threw("getAllPersonas", "", "")
                      ELSE Returned("getAllPersonas", "", "",
                                    AllPersonasOf(stored.value))
      /\ UNCHANGED <<localStorage, lsFrame>>

\* the item is overwritten from outside the service with text that is not
\* JSON (another script of the origin, a truncated write, the user)
StorageCorrupted ==
  /\ localStorage # CorruptedItem
  /\ localStorage' = CorruptedItem
  /\ lsResult' = NoResult
  /\ UNCHANGED lsFrame

\* no update request has been issued
NoOrder ==
  /\ issued = <<>>
  /\ lastArrived = [id \in ConcurrentIds |-> NoArrival]
  /\ overtaken = {}

\* no helper has been called
UtilIdle ==
  /\ response = NoResponse
  /\ rateLimitInfo = Unparsed
  /\ localStorage = NothingStored
  /\ lsResult = NoResult
  /\ NoOrder
  /\ stale = {}

(***************************************************************************)
(* Draft Manager (lib/draftManager).                                       *)
(***************************************************************************)
NoDrafts == [k \in Kinds |-> <<>>]

getDrafts(store, k) == store[k]

UsedTempIds(store) ==
  UNION {{store[k][i]["tempId"].s : i \in DOMAIN store[k]} : k \in Kinds}

saveDraft(store, k, draft) == [store EXCEPT ![k] = Append(@, draft)]

clearDraftsOnAuthChange(store, wasUnauthenticated, isNowAuthenticated) ==
  IF wasUnauthenticated = isNowAuthenticated THEN NoDrafts ELSE store

(***************************************************************************)
(* Auth State Store and the useAuthState hook (lib/auth).                  *)
(***************************************************************************)
\* const authState = user ? {...} : {...}
AuthStateOf(u, tok) ==
  IF u # NoUser
  THEN [isAuthenticated |-> TRUE, token |-> tok, userInfo |-> u.id]
  ELSE [isAuthenticated |-> FALSE, token |-> NullToken, userInfo |-> "null"]

\* mutant: only a sign-in counts as a change
AuthChanged_SignInOnly(previousAuthState, currentAuthState) ==
  (~previousAuthState.isAuthenticated) /\ currentAuthState.isAuthenticated

\* if (wasUnauthenticated !== !authState.isAuthenticated)
AuthChanged(previousAuthState, currentAuthState) ==
  (~previousAuthState.isAuthenticated) # (~currentAuthState.isAuthenticated)

Call(op, a, b) == [op |-> op, a |-> a, b |-> b]

\* the calls of the auth-change effect when the state changed
AuthChangeCalls(wasUnauthenticated, isNowAuthenticated) ==
  << Call("clearDraftsOnAuthChange", wasUnauthenticated, isNowAuthenticated),
     Call("queryClient.clear", FALSE, FALSE),
     Call("invalidateQueries:company", FALSE, FALSE),
     Call("invalidateQueries:companies", FALSE, FALSE) >>

SessionAuthenticated(u) == u # NoUser

\* React renders every subscribed component before the next identity event
AllRendered == \A h \in Hooks : mounted[h] => seenUser[h] = user

\* One evaluation of useAuthState by instance h followed by its effects.
\* first: the instance is being mounted, so every effect runs.
Evaluate(h, first) ==
  LET newState == AuthStateOf(user, token[h])
      userDep == first \/ user # seenUser[h]
      globalDep == \/ first
                   \/ newState.isAuthenticated # authState[h].isAuthenticated
                   \/ newState.token # authState[h].token
                   \/ newState.userInfo # "null"
      flagDep == first \/ newState.isAuthenticated # authState[h].isAuthenticated
      previousAuthState == prevAuthState[h]
      wasUnauthenticated == ~previousAuthState.isAuthenticated
      isNowAuthenticated == newState.isAuthenticated
      changed == flagDep /\ AuthChanged(previousAuthState, newState)
  IN  /\ seenUser' = [seenUser EXCEPT ![h] = user]
      /\ authState' = [authState EXCEPT ![h] = newState]
      \* effect [user]: cleanup of the previous run (isMounted = false: the
      \* pending fetch of this instance will settle into nothing and is
      \* dropped), then fetchToken()
      /\ IF userDep
         THEN /\ fetches' =
                   {f \in fetches : f.hook # h}
                   \cup (IF user # NoUser
                         THEN {[hook |-> h, uid |-> user.id]}
                         ELSE {})
              /\ loading' = [loading EXCEPT ![h] = (user # NoUser)]
              /\ token' = [token EXCEPT ![h] = IF user # NoUser THEN @ ELSE NullToken]
         ELSE UNCHANGED <<fetches, loading, token>>
      \* effect [isAuthenticated, token, userInfo]: updateGlobalAuthState
      /\ globalAuthState' = IF globalDep THEN newState ELSE globalAuthState
      \* effect [isAuthenticated, queryClient]: the auth-change handler
      /\ prevAuthState' = IF flagDep THEN [prevAuthState EXCEPT ![h] = newState]
                          ELSE prevAuthState
      /\ IF changed
         THEN /\ drafts' = clearDraftsOnAuthChange(drafts, wasUnauthenticated,
                                                   isNowAuthenticated)
              /\ savedAs' = [t \in TempIds |-> "none"]
              /\ cache' = {}
              /\ queries' = {}
              /\ calls' = AuthChangeCalls(wasUnauthenticated, isNowAuthenticated)
              /\ lastCleared' = {e.key : e \in cache}
              /\ clearsThisCrossing' =
                   IF clearsThisCrossing < ClearCountCap
                   THEN clearsThisCrossing + 1 ELSE clearsThisCrossing
              /\ flippedSinceClear' = FALSE
         ELSE /\ calls' = <<>>
              /\ lastCleared' = {}
              /\ UNCHANGED <<draftVars, cache, queries, clearsThisCrossing,
                             flippedSinceClear>>
      /\ UNCHANGED <<quietVars, pageVars, identityVars, mutations, observers>>

\* a component that calls useAuthState is mounted
Mount(h) ==
  /\ ~mounted[h]
  /\ mounted' = [mounted EXCEPT ![h] = TRUE]
  /\ Evaluate(h, TRUE)

\* a mounted component re-renders (for any reason)
Render(h) ==
  /\ mounted[h]
  /\ UNCHANGED mounted
  /\ Evaluate(h, FALSE)

NoCalls == calls' = <<>> /\ lastCleared' = {}

\* the component is unmounted: effect cleanup, state and ref are dropped
Unmount(h) ==
  /\ mounted[h]
  /\ mounted' = [mounted EXCEPT ![h] = FALSE]
  /\ fetches' = {f \in fetches : f.hook # h}
  /\ seenUser' = [seenUser EXCEPT ![h] = Unrendered]
  /\ token' = [token EXCEPT ![h] = NullToken]
  /\ loading' = [loading EXCEPT ![h] = TRUE]
  /\ prevAuthState' = [prevAuthState EXCEPT ![h] = InitialAuthState]
  /\ authState' = [authState EXCEPT ![h] = InitialAuthState]
  /\ observers' = observers \ {h}
  /\ NoCalls
  /\ UNCHANGED <<quietVars, pageVars, identityVars, globalAuthState, cacheVars, draftVars,
                 clearsThisCrossing, flippedSinceClear>>

\* await user.getAuthJson() settles: a token, an empty token or a rejection
FetchSettles(f, outcome) ==
  /\ f \in fetches
  /\ fetches' = fetches \ {f}
  \* if (isMounted): a fetch still in the set has not been cleaned up
  /\ token' = [token EXCEPT ![f.hook] =
                 IF outcome = "token" THEN TokenOf[f.uid] ELSE NullToken]
  /\ loading' = [loading EXCEPT ![f.hook] = FALSE]
  /\ NoCalls
  /\ UNCHANGED <<quietVars, pageVars, identityVars, mounted, seenUser, prevAuthState,
                 authState, globalAuthState, cacheVars, draftVars, observers,
                 clearsThisCrossing, flippedSinceClear>>

\* getAuthState(): the global store
getAuthState == globalAuthState

\* mutant: the authenticated flag alone decides
shouldUseAuthenticatedEndpoints_FlagOnly == getAuthState.isAuthenticated

\* !!authState.isAuthenticated && !!authState.token
shouldUseAuthenticatedEndpoints ==
  getAuthState.isAuthenticated /\ getAuthState.token \notin {NullToken, ""}

getApiBasePath == IF shouldUseAuthenticatedEndpoints THEN "/api" ELSE "/demo"

\* return () => { isMounted = false; } runs when the [user] effect of h runs
\* again and when h unmounts: the request is not cancelled, it stays in flight
CleanedUp(h) ==
  stale' = stale \cup (IF seenUser'[h] # seenUser[h]
                        THEN {f \in fetches : f.hook = h}
                        ELSE {})

\* mutant: the result is applied without the isMounted test
StaleFetchSettles_Applied(f, outcome) ==
  /\ f \in stale
  /\ stale' = stale \ {f}
  /\ token' = [token EXCEPT ![f.hook] =
                 IF outcome = "token" THEN TokenOf[f.uid] ELSE NullToken]
  /\ loading' = [loading EXCEPT ![f.hook] = FALSE]
  /\ NoCalls
  /\ UNCHANGED <<quietVars, pageVars, identityVars, mounted, seenUser, prevAuthState,
                 authState, globalAuthState, fetches, cacheVars, draftVars,
                 observers, clearsThisCrossing, flippedSinceClear>>

\* await user.getAuthJson() settles after the cleanup: every setToken and
\* setLoading is behind if (isMounted), so nothing is applied
StaleFetchSettles(f, outcome) ==
  /\ f \in stale
  /\ stale' = stale \ {f}
  /\ NoCalls
  /\ UNCHANGED <<quietVars, pageVars, identityVars, hookVars, cacheVars, draftVars,
                 observers, clearsThisCrossing, flippedSinceClear>>

(***************************************************************************)
(* Identity provider events.                                               *)
(***************************************************************************)
\* requests and cached entities that belong to the auth state being left
Prior(set) == {[e EXCEPT !.prior = TRUE] : e \in set}

\* every user object the provider hands out is a new object
IdentityEvent(newId, crossing) ==
  /\ AllRendered
  /\ user' = IF newId = "none" THEN NoUser
             ELSE [id |-> newId, obj |-> 1 - user.obj]
  /\ IF crossing
     THEN /\ observers' = {h \in Hooks : mounted[h]}
          /\ clearsThisCrossing' = 0
          /\ flippedSinceClear' = TRUE
          /\ cache' = Prior(cache)
          /\ mutations' = Prior(mutations)
          /\ queries' = Prior(queries)
     ELSE UNCHANGED <<observers, clearsThisCrossing, flippedSinceClear, cacheVars>>
  /\ NoCalls
  /\ UNCHANGED <<normVars, pageVars, hookVars, draftVars>>

SignIn(u) == user = NoUser /\ IdentityEvent(u, TRUE)

SignOut == user # NoUser /\ IdentityEvent("none", TRUE)

\* one signed-in user is replaced by another without signing out
SwitchUser(u) == user # NoUser /\ user.id # u /\ IdentityEvent(u, FALSE)

\* the provider hands out a new user object for the same user
RefreshUser == user # NoUser /\ IdentityEvent(user.id, FALSE)

(***************************************************************************)
(* Campaign queries and mutations (hooks/useCampaigns).                    *)
(***************************************************************************)
QueryKey(type, id) == [type |-> type, id |-> id]

\* mutant: an entry already cached is kept, the first write wins
setQueryData_KeepExisting(c, key, entity, prior) ==
  IF \E e \in c : e.key = key THEN c
  ELSE c \cup {[key |-> key, entity |-> entity, prior |-> prior]}

\* queryClient.setQueryData(key, entity); prior is history
setQueryData(c, key, entity, prior) ==
  {e \in c : e.key # key}
    \cup {[key |-> key, entity |-> entity, prior |-> prior]}

InFlight == Cardinality(mutations) + Cardinality(queries)

\* the campaign the server answers with
SavedCampaign(id, data) ==
  [id |-> S(id), name |-> S("n"), type |-> S("email"), data |-> M(data)]

\* mutate() of useCreateCampaign / useUpdateCampaign in a component that
\* took its token from a mounted useAuthState instance
IssueMutation(op, id, data, max) ==
  /\ \E h \in Hooks : mounted[h]
  /\ InFlight < max
  /\ mutations' = mutations \cup
       {[op |-> op, campaignId |-> id, data |-> data, prior |-> FALSE]}
  /\ NoCalls
  /\ UNCHANGED <<coreVars, pageVars, identityVars, hookVars, cache, queries, draftVars,
                 observers, clearsThisCrossing, flippedSinceClear>>

CreateCampaign(data) == IssueMutation("create", "", data, MaxInFlight)

\* at most max requests are in flight
UpdateCampaign(id, data, max) == IssueMutation("update", id, data, max)

\* onSuccess of useCreateCampaign; the server chose the id.  The list
\* invalidation refetches active list queries and drops nothing.
CreateSucceeds(m, id) ==
  /\ m \in mutations /\ m.op = "create"
  /\ mutations' = mutations \ {m}
  /\ LET normalized == normalizeCampaignResponse(SavedCampaign(id, m.data))
     IN  cache' = setQueryData(cache, QueryKey("campaign", normalized["id"].s),
                               normalized, m.prior)
  /\ calls' = <<Call("invalidateQueries:campaigns", FALSE, FALSE),
                Call("setQueryData", FALSE, FALSE)>>
  /\ lastCleared' = {}
  /\ UNCHANGED <<normVars, pageVars, identityVars, hookVars, queries, draftVars, observers,
                 clearsThisCrossing, flippedSinceClear>>

\* onSuccess of useUpdateCampaign
UpdateSucceeds(m) ==
  /\ m \in mutations /\ m.op = "update"
  /\ mutations' = mutations \ {m}
  /\ LET normalized ==
           normalizeCampaignResponse(SavedCampaign(m.campaignId, m.data))
     IN  cache' = setQueryData(cache, QueryKey("campaign", normalized["id"].s),
                               normalized, m.prior)
  /\ calls' = <<Call("setQueryData", FALSE, FALSE)>>
  /\ lastCleared' = {}
  /\ UNCHANGED <<coreVars, pageVars, identityVars, hookVars, queries, draftVars, observers,
                 clearsThisCrossing, flippedSinceClear>>

\* the request of a mutation fails: no onSuccess
MutationFails(m) ==
  /\ m \in mutations
  /\ mutations' = mutations \ {m}
  /\ NoCalls
  /\ UNCHANGED <<coreVars, pageVars, identityVars, hookVars, cache, queries, draftVars,
                 observers, clearsThisCrossing, flippedSinceClear>>

\* useGetCampaign: enabled: !!campaignId && !!token
GetCampaign(h, id) ==
  /\ mounted[h]
  /\ authState[h].token # NullToken
  /\ InFlight < MaxInFlight
  /\ queries' = queries \cup
       {[campaignId |-> id, prior |-> FALSE]}
  /\ NoCalls
  /\ UNCHANGED <<normVars, pageVars, identityVars, hookVars, cache, mutations, draftVars,
                 observers, clearsThisCrossing, flippedSinceClear>>

\* queryFn getCampaign resolves and the query stores the normalized campaign
GetSucceeds(q, data) ==
  /\ q \in queries
  /\ queries' = queries \ {q}
  /\ cache' = setQueryData(cache, QueryKey(CAMPAIGN_QUERY_KEY, q.campaignId),
                normalizeCampaignResponse(SavedCampaign(q.campaignId, data)),
                q.prior)
  /\ NoCalls
  /\ UNCHANGED <<normVars, pageVars, identityVars, hookVars, mutations, draftVars, observers,
                 clearsThisCrossing, flippedSinceClear>>

(***************************************************************************)
(* Draft Manager: the field-preserving update.                             *)
(***************************************************************************)
DraftIndex(list, tempId) ==
  LET idx == {i \in DOMAIN list : Get(list[i], "tempId") = S(tempId)}
  IN  IF idx = {} THEN 0 ELSE CHOOSE i \in idx : \A j \in idx : i <= j

\* { ...draft, ...partialUpdate, data: { ...draft.data, ...partialUpdate } }
MergePreserveFields(draft, partialUpdate) ==
  Spread(Spread(draft, partialUpdate),
         One("data", M(Spread(DataOrEmpty(draft).m, partialUpdate))))

\* mutant: a missing draft is created from the update
updateDraftPreserveFields_Upsert(store, k, tempId, partialUpdate) ==
  LET i == DraftIndex(store[k], tempId)
  IN  IF i = 0
      THEN [ok |-> TRUE,
            store |-> [store EXCEPT ![k] =
                         Append(@, Spread(partialUpdate, One("tempId", S(tempId))))]]
      ELSE [ok |-> TRUE,
            store |-> [store EXCEPT ![k][i] = MergePreserveFields(@, partialUpdate)]]

\* mutant: the draft is looked up by tempId in the lists of all kinds
updateDraftPreserveFields_AnyKind(store, k, tempId, partialUpdate) ==
  IF \A k2 \in Kinds : DraftIndex(store[k2], tempId) = 0
  THEN [ok |-> FALSE, store |-> store]
  ELSE [ok |-> TRUE,
        store |-> [k2 \in Kinds |->
                     [i \in DOMAIN store[k2] |->
                        IF i = DraftIndex(store[k2], tempId)
                        THEN MergePreserveFields(store[k2][i], partialUpdate)
                        ELSE store[k2][i]]]]

\* returns the boolean result and the store afterwards
updateDraftPreserveFields(store, k, tempId, partialUpdate) ==
  LET i == DraftIndex(store[k], tempId)
  IN  IF i = 0
      THEN [ok |-> FALSE, store |-> store]
      ELSE [ok |-> TRUE,
            store |-> [store EXCEPT ![k][i] = MergePreserveFields(@, partialUpdate)]]

NoCall ==
  [op |-> "none", by |-> "", kind |-> "", tempId |-> "", updates |-> EmptyMap,
   ok |-> FALSE]

UpdateCall(by, k, tempId, partialUpdate, ok) ==
  [op |-> "updateDraftPreserveFields", by |-> by, kind |-> k, tempId |-> tempId,
   updates |-> partialUpdate, ok |-> ok]

\* updateWithFieldPreservation({ currentAccount, updates }): tempId holds the
\* id the account page was opened with
RemoteCall(by, accountId, updates) ==
  [op |-> "updateWithFieldPreservation", by |-> by, kind |-> "account",
   tempId |-> accountId, updates |-> updates, ok |-> TRUE]

(***************************************************************************)
(* AccountDetail (pages/AccountDetail).                                    *)
(***************************************************************************)
\* the useAuthState instance of the page
PageHook == 1

\* the values an edit can set
FirmographicsValues == {M(One("business_model", S("B2B")))}

SignalsValues ==
  {L(<<M([title |-> S("Hiring"), detection_method |-> S("News")])>>)}

CachedEntity(key) ==
  IF \E e \in cache : e.key = key
  THEN (CHOOSE e \in cache : e.key = key).entity
  ELSE NoEntity

normalizeAccountResponse(account) ==
  LET data == transformKeysToCamelCase(DataOrEmpty(account)).m
  IN  Spread(Spread(account, data), One("data", M(data)))

\* the local draft the route denotes, if the route denotes an unsaved entity
RouteDraft ==
  LET i == DraftIndex(getDrafts(drafts, "account"), route)
  IN  IF route \in TempIds /\ i # 0
      THEN getDrafts(drafts, "account")[i]
      ELSE NoEntity

\* mutant: the tiers are merged field by field
displayEntity_Merged ==
  Spread(Spread(CachedEntity(QueryKey("account", route)), RouteDraft),
         pendingGenerated)

\* useEntityPage: the pending generation result, else the draft the route
\* denotes, else the cached account
displayEntity ==
  IF pendingGenerated # NoEntity THEN pendingGenerated
  ELSE IF RouteDraft # NoEntity THEN RouteDraft
  ELSE CachedEntity(QueryKey("account", route))

\* the account the server holds for a persisted id
SavedAccount(id) ==
  [id |-> S(id), name |-> S("n"),
   data |-> M([firmographics |-> M(One("industry", S("SaaS"))),
               buying_signals |-> L(<<>>)])]

\* useGetAccount resolves for the account of the route
FetchAccount ==
  /\ route # "new"
  /\ CachedEntity(QueryKey("account", route)) = NoEntity
  /\ cache' = setQueryData(cache, QueryKey("account", route),
                           normalizeAccountResponse(SavedAccount(route)), FALSE)
  /\ lastCall' = NoCall
  /\ NoCalls
  /\ UNCHANGED <<normVars, genVars, identityVars, hookVars, mutations, queries, draftVars,
                 route, firmographicsModalOpen, buyingSignalsModalOpen,
                 accountUpdates, observers, clearsThisCrossing,
                 flippedSinceClear>>

\* mutant: the handler passes a whole replacement, resetting the other field
FirmographicsUpdates_Replace(newFirmographics) ==
  [firmographics |-> newFirmographics, buyingSignals |-> L(<<>>)]

\* { firmographics: newFirmographics }
FirmographicsUpdates(newFirmographics) == One("firmographics", newFirmographics)

\* { buyingSignals: updatedSignals }
BuyingSignalsUpdates(updatedSignals) == One("buyingSignals", updatedSignals)

\* draftAccounts.find(draft => draft.tempId): 0 when there is none
CurrentDraftIndex(draftAccounts) ==
  LET idx == {i \in DOMAIN draftAccounts :
                "tempId" \in DOMAIN draftAccounts[i]
                /\ draftAccounts[i]["tempId"] # S("")}
  IN  IF idx = {} THEN 0 ELSE CHOOSE i \in idx : \A j \in idx : i <= j

\* The body shared by handleFirmographicsUpdate and handleBuyingSignalsUpdate:
\* field is the edited field, updates the partial update, modal the modal the
\* handler closes.
HandleUpdate(by, field, value, updates, modal) ==
  IF authState[PageHook].token # NullToken /\ route # "" /\ displayEntity # NoEntity
  THEN \* updateWithFieldPreservation({ currentAccount, updates }, ...)
       /\ Cardinality(accountUpdates) < MaxInFlight
       /\ accountUpdates' = accountUpdates \cup
            {[accountId |-> route, updates |-> updates, modal |-> modal]}
       /\ lastCall' = RemoteCall(by, route, updates)
       /\ UNCHANGED <<draftVars, cache, firmographicsModalOpen,
                      buyingSignalsModalOpen>>
  ELSE LET draftAccounts == getDrafts(drafts, "account")
           i == CurrentDraftIndex(draftAccounts)
       IN  IF i = 0
           THEN /\ lastCall' = NoCall
                /\ UNCHANGED <<draftVars, cache, firmographicsModalOpen,
                               buyingSignalsModalOpen, accountUpdates>>
           ELSE LET tempId == draftAccounts[i]["tempId"].s
                    result == updateDraftPreserveFields(drafts, "account",
                                                        tempId, updates)
                    currentAccount == CachedEntity(QueryKey("account", route))
                    updatedAccount ==
                      normalizeAccountResponse(
                        Spread(Spread(currentAccount, One(field, value)),
                               One("data", M(Spread(DataOrEmpty(currentAccount).m,
                                                    One(field, value))))))
                IN  /\ drafts' = result.store
                    /\ lastCall' = UpdateCall(by, "account", tempId, updates,
                                              result.ok)
                    /\ cache' = IF result.ok /\ currentAccount # NoEntity
                                THEN setQueryData(cache, QueryKey("account", route),
                                                  updatedAccount, FALSE)
                                ELSE cache
                    /\ firmographicsModalOpen' =
                         (firmographicsModalOpen
                            /\ ~(result.ok /\ modal = "firmographics"))
                    /\ buyingSignalsModalOpen' =
                         (buyingSignalsModalOpen
                            /\ ~(result.ok /\ modal = "buyingSignals"))
                    /\ UNCHANGED <<savedAs, accountUpdates>>

\* CriteriaTable onEdit, rendered when the displayed entity has firmographics
OpenFirmographicsModal ==
  /\ displayEntity # NoEntity
  /\ "firmographics" \in DOMAIN displayEntity
  /\ ~firmographicsModalOpen
  /\ firmographicsModalOpen' = TRUE
  /\ lastCall' = NoCall
  /\ NoCalls
  /\ UNCHANGED <<normVars, genVars, identityVars, hookVars, cacheVars, draftVars, route,
                 buyingSignalsModalOpen, accountUpdates, observers,
                 clearsThisCrossing, flippedSinceClear>>

\* the Add button of the buying-signals card
OpenBuyingSignalsModal ==
  /\ ~buyingSignalsModalOpen
  /\ buyingSignalsModalOpen' = TRUE
  /\ lastCall' = NoCall
  /\ NoCalls
  /\ UNCHANGED <<normVars, genVars, identityVars, hookVars, cacheVars, draftVars, route,
                 firmographicsModalOpen, accountUpdates, observers,
                 clearsThisCrossing, flippedSinceClear>>

\* onSave of EditCriteriaModal
handleFirmographicsUpdate(newFirmographics) ==
  /\ firmographicsModalOpen
  /\ HandleUpdate("handleFirmographicsUpdate", "firmographics", newFirmographics,
                  FirmographicsUpdates(newFirmographics), "firmographics")
  /\ NoCalls
  /\ UNCHANGED <<normVars, genVars, identityVars, hookVars, mutations, queries, route,
                 observers, clearsThisCrossing, flippedSinceClear>>

\* onSave of EditBuyingSignalModal
handleBuyingSignalsUpdate(updatedSignals) ==
  /\ buyingSignalsModalOpen
  /\ HandleUpdate("handleBuyingSignalsUpdate", "buyingSignals", updatedSignals,
                  BuyingSignalsUpdates(updatedSignals), "buyingSignals")
  /\ NoCalls
  /\ UNCHANGED <<normVars, genVars, identityVars, hookVars, mutations, queries, route,
                 observers, clearsThisCrossing, flippedSinceClear>>

\* mutant: onError closes the modal as onSuccess does
RemoteUpdateSettles_ClosesOnError(u, success) ==
  /\ u \in accountUpdates
  /\ accountUpdates' = accountUpdates \ {u}
  /\ firmographicsModalOpen' = (firmographicsModalOpen /\ u.modal # "firmographics")
  /\ buyingSignalsModalOpen' = (buyingSignalsModalOpen /\ u.modal # "buyingSignals")
  /\ lastCall' = NoCall
  /\ NoCalls
  /\ UNCHANGED <<normVars, genVars, identityVars, hookVars, cacheVars, draftVars, route,
                 observers, clearsThisCrossing, flippedSinceClear>>

\* onSuccess / onError passed to updateWithFieldPreservation
RemoteUpdateSettles(u, success) ==
  /\ u \in accountUpdates
  /\ accountUpdates' = accountUpdates \ {u}
  /\ firmographicsModalOpen' =
       (firmographicsModalOpen /\ ~(success /\ u.modal = "firmographics"))
  /\ buyingSignalsModalOpen' =
       (buyingSignalsModalOpen /\ ~(success /\ u.modal = "buyingSignals"))
  /\ lastCall' = NoCall
  /\ NoCalls
  /\ UNCHANGED <<normVars, genVars, identityVars, hookVars, cacheVars, draftVars, route,
                 observers, clearsThisCrossing, flippedSinceClear>>

MaxSignals == 2

\* the signals the modal can add
NewSignals ==
  {M([title |-> S(t), detection_method |-> S("News")]) : t \in {"Hiring", "Funding"}}

\* displayEntity?.buyingSignals, [] when absent
SignalsOf(entity) ==
  IF "buyingSignals" \in DOMAIN entity THEN entity["buyingSignals"].l ELSE <<>>

\* onSave of EditBuyingSignalModal with no signal being edited: the new signal
\* is appended to the shown list, the list is set at once and handed to
\* handleBuyingSignalsUpdate; the effect on [displayEntity] then sets the list
\* from the entity if the entity changed
EditBuyingSignalSave(newSignal) ==
  /\ buyingSignalsModalOpen
  /\ Len(buyingSignals) < MaxSignals
  /\ LET updatedSignals == Append(buyingSignals, newSignal)
     IN  /\ HandleUpdate("handleBuyingSignalsUpdate", "buyingSignals",
                         L(updatedSignals), BuyingSignalsUpdates(L(updatedSignals)),
                         "buyingSignals")
         /\ NoCalls
         /\ UNCHANGED <<raw, kind, out, out2, utilVars, orderVars, stale, genVars,
                        identityVars, hookVars, mutations, queries, route,
                        observers, clearsThisCrossing, flippedSinceClear>>
         /\ buyingSignals' = IF displayEntity' # displayEntity
                             THEN SignalsOf(displayEntity')
                             ELSE updatedSignals

\* the remote update succeeds: the server merged the update, the cache holds
\* the merged account, onSuccess closes the modal; the effect on
\* [displayEntity] sets the shown list from the entity if the entity changed
RemoteUpdateStored(u) ==
  /\ u \in accountUpdates
  /\ accountUpdates' = accountUpdates \ {u}
  /\ LET key == QueryKey("account", u.accountId)
         currentAccount == CachedEntity(key)
     IN  cache' = setQueryData(cache, key,
                    normalizeAccountResponse(
                      Spread(Spread(currentAccount, u.updates),
                             One("data", M(Spread(DataOrEmpty(currentAccount).m,
                                                  u.updates))))),
                    FALSE)
  /\ firmographicsModalOpen' = (firmographicsModalOpen /\ u.modal # "firmographics")
  /\ buyingSignalsModalOpen' = (buyingSignalsModalOpen /\ u.modal # "buyingSignals")
  /\ lastCall' = NoCall
  /\ NoCalls
  /\ UNCHANGED <<raw, kind, out, out2, utilVars, orderVars, stale, genVars,
                 identityVars, hookVars, mutations, queries, draftVars, route,
                 observers, clearsThisCrossing, flippedSinceClear>>
  /\ buyingSignals' = IF displayEntity' # displayEntity
                      THEN SignalsOf(displayEntity')
                      ELSE buyingSignals

\* any other caller of DraftManager.updateDraftPreserveFields (the pages of
\* the other kinds; account drafts are edited through the handlers above)
UpdateDraft(k, tempId, partialUpdate) ==
  /\ LET result == updateDraftPreserveFields(drafts, k, tempId, partialUpdate)
     IN  /\ drafts' = result.store
         /\ lastCall' = UpdateCall("DraftManager", k, tempId, partialUpdate,
                                   result.ok)
  /\ NoCalls
  /\ UNCHANGED <<normVars, genVars, identityVars, hookVars, cacheVars, savedAs, route,
                 firmographicsModalOpen, buyingSignalsModalOpen, accountUpdates,
                 observers, clearsThisCrossing, flippedSinceClear>>

(***************************************************************************)
(* AccountDetail: generation and creation.                                 *)
(***************************************************************************)
\* the raw AI output of a generate request
GeneratedAccount ==
  [name |-> S("generated"),
   data |-> M([firmographics |-> M(One("business_model", S("B2B"))),
               buying_signals |-> L(<<>>)])]

Generation(by) == [by |-> by, phase |-> "generating", requests |-> 1, errors |-> 0]

\* mutant: the request is issued without a company overview
handleCreateAccount_NoOverviewCheck ==
  /\ route = "new" /\ isCreationModalOpen
  /\ Len(generations) < MaxGenerations
  /\ generations' = Append(generations, Generation("handleCreateAccount"))
  /\ lastCall' = NoCall
  /\ NoCalls
  /\ UNCHANGED <<normVars, identityVars, hookVars, cacheVars, draftVars, route,
                 firmographicsModalOpen, buyingSignalsModalOpen, accountUpdates,
                 pendingGenerated, hasOverview, isCreationModalOpen, observers,
                 clearsThisCrossing, flippedSinceClear>>

\* onSubmit of the creation modal
handleCreateAccount ==
  /\ route = "new" /\ isCreationModalOpen
  /\ Len(generations) < MaxGenerations
  /\ generations' = IF hasOverview
                     THEN Append(generations, Generation("handleCreateAccount"))
                     ELSE generations
  /\ lastCall' = NoCall
  /\ NoCalls
  /\ UNCHANGED <<normVars, identityVars, hookVars, cacheVars, draftVars, route,
                 firmographicsModalOpen, buyingSignalsModalOpen, accountUpdates,
                 pendingGenerated, hasOverview, isCreationModalOpen, observers,
                 clearsThisCrossing, flippedSinceClear>>

\* onGenerate of the page layout: entityPageState.generateEntity(...)
handleGenerate ==
  /\ route # "new"
  /\ Len(generations) < MaxGenerations
  /\ generations' = Append(generations, Generation("handleGenerate"))
  /\ lastCall' = NoCall
  /\ NoCalls
  /\ UNCHANGED <<normVars, identityVars, hookVars, cacheVars, draftVars, route,
                 firmographicsModalOpen, buyingSignalsModalOpen, accountUpdates,
                 pendingGenerated, hasOverview, isCreationModalOpen, observers,
                 clearsThisCrossing, flippedSinceClear>>

\* mutant: a failed generate request is issued again
GenerateSettles_Retry(i, success) ==
  /\ i \in DOMAIN generations
  /\ generations[i].phase = "generating"
  /\ generations' =
       [generations EXCEPT ![i] =
          IF success
          THEN [@ EXCEPT !.phase = IF generations[i].by = "handleCreateAccount"
                                   THEN "creating" ELSE "done"]
          ELSE IF @.requests < 2
               THEN [@ EXCEPT !.requests = @ + 1]
               ELSE [@ EXCEPT !.phase = "failed", !.errors = @ + 1]]
  /\ pendingGenerated' =
       IF success /\ generations[i].by = "handleGenerate"
       THEN normalizeAccountResponse(GeneratedAccount)
       ELSE pendingGenerated
  /\ lastCall' = NoCall
  /\ NoCalls
  /\ UNCHANGED <<normVars, identityVars, hookVars, cacheVars, draftVars, route,
                 firmographicsModalOpen, buyingSignalsModalOpen, accountUpdates,
                 hasOverview, isCreationModalOpen, observers, clearsThisCrossing,
                 flippedSinceClear>>

\* the generate request of invocation i settles.  handleCreateAccount goes on
\* to createAccount; generateEntity holds the normalized output as the
\* working entity of the page.  A failure goes to the error handler.
GenerateSettles(i, success) ==
  /\ i \in DOMAIN generations
  /\ generations[i].phase = "generating"
  /\ generations' =
       [generations EXCEPT ![i] =
          IF success
          THEN [@ EXCEPT !.phase = IF generations[i].by = "handleCreateAccount"
                                   THEN "creating" ELSE "done"]
          ELSE [@ EXCEPT !.phase = "failed", !.errors = @ + 1]]
  /\ pendingGenerated' =
       IF success /\ generations[i].by = "handleGenerate"
       THEN normalizeAccountResponse(GeneratedAccount)
       ELSE pendingGenerated
  /\ lastCall' = NoCall
  /\ NoCalls
  /\ UNCHANGED <<normVars, identityVars, hookVars, cacheVars, draftVars, route,
                 firmographicsModalOpen, buyingSignalsModalOpen, accountUpdates,
                 hasOverview, isCreationModalOpen, observers, clearsThisCrossing,
                 flippedSinceClear>>

\* createAccount of invocation i settles: onSuccess closes the creation modal
\* and navigates to the saved account, onError reports
CreateAccountSettles(i, success) ==
  /\ i \in DOMAIN generations
  /\ generations[i].phase = "creating"
  /\ generations' =
       [generations EXCEPT ![i] =
          IF success THEN [@ EXCEPT !.phase = "done"]
          ELSE [@ EXCEPT !.phase = "failed", !.errors = @ + 1]]
  /\ isCreationModalOpen' = (isCreationModalOpen /\ ~success)
  /\ route' = IF success THEN "acc_1" ELSE route
  /\ lastCall' = NoCall
  /\ NoCalls
  /\ UNCHANGED <<normVars, identityVars, hookVars, cacheVars, draftVars,
                 firmographicsModalOpen, buyingSignalsModalOpen, accountUpdates,
                 pendingGenerated, hasOverview, observers, clearsThisCrossing,
                 flippedSinceClear>>

(***************************************************************************)
(* Drafts are created while an entity is unsaved.                          *)
(***************************************************************************)
NewDraft(tempId, name) ==
  [tempId |-> S(tempId), name |-> S(name),
   firmographics |-> M(One("industry", S("SaaS"))), buyingSignals |-> L(<<>>),
   data |-> M([firmographics |-> M(One("industry", S("SaaS"))),
               buyingSignals |-> L(<<>>)])]

DraftCount == Len(drafts["account"]) + Len(drafts["persona"])

SaveDraft(k, max) ==
  /\ DraftCount < max
  /\ LET tempId == FreshTempId(UsedTempIds(drafts))
     IN  /\ drafts' = saveDraft(drafts, k, NewDraft(tempId, k))
         /\ savedAs' = [savedAs EXCEPT ![tempId] = k]
  /\ lastCall' = NoCall
  /\ NoCalls
  /\ UNCHANGED <<normVars, genVars, identityVars, hookVars, cacheVars, route,
                 firmographicsModalOpen, buyingSignalsModalOpen, accountUpdates,
                 observers, clearsThisCrossing, flippedSinceClear>>

(***************************************************************************)
(* The application: identity events, components, requests.                 *)
(***************************************************************************)
Init ==
  /\ raw = NoEntity /\ kind = "campaign" /\ out = NoEntity /\ out2 = NoEntity
  /\ user = NoUser
  /\ mounted = [h \in Hooks |-> FALSE]
  /\ seenUser = [h \in Hooks |-> Unrendered]
  /\ token = [h \in Hooks |-> NullToken]
  /\ loading = [h \in Hooks |-> TRUE]
  /\ prevAuthState = [h \in Hooks |-> InitialAuthState]
  /\ authState = [h \in Hooks |-> InitialAuthState]
  /\ fetches = {}
  /\ globalAuthState = InitialAuthState
  /\ cache = {}
  /\ mutations = {}
  /\ queries = {}
  /\ drafts = NoDrafts
  /\ savedAs = [t \in TempIds |-> "none"]
  /\ route = ""
  /\ firmographicsModalOpen = FALSE
  /\ buyingSignalsModalOpen = FALSE
  /\ accountUpdates = {}
  /\ lastCall = NoCall
  /\ buyingSignals = <<>>
  /\ UtilIdle
  /\ pendingGenerated = NoEntity
  /\ generations = <<>>
  /\ hasOverview = TRUE
  /\ isCreationModalOpen = FALSE
  /\ observers = {}
  /\ clearsThisCrossing = 0
  /\ flippedSinceClear = FALSE
  /\ calls = <<>>
  /\ lastCleared = {}

\* Auth transitions, the query cache and the drafts: one user signs in and
\* out, components mount and re-render, campaigns are saved, drafts created.
Next ==
  \/ \E h \in Hooks : Mount(h) /\ UNCHANGED stale
  \/ \E h \in Hooks : Render(h) /\ UNCHANGED stale
  \/ \E h \in Hooks : Unmount(h) /\ UNCHANGED stale
  \/ SignIn("u1")
  \/ SignOut
  \/ RefreshUser
  \/ CreateCampaign(ExampleData) /\ UNCHANGED orderVars
  \/ \E id \in CampaignIds :
       UpdateCampaign(id, ExampleData, MaxInFlight) /\ UNCHANGED orderVars
  \/ \E m \in mutations, id \in CampaignIds : CreateSucceeds(m, id)
  \/ \E m \in mutations : UpdateSucceeds(m) /\ UNCHANGED orderVars
  \/ \E m \in mutations : MutationFails(m) /\ UNCHANGED orderVars
  \/ SaveDraft("account", MaxDrafts)

Spec == Init /\ [][Next]_vars

(***************************************************************************)
(* The Draft Manager under the account page: the page is open on a route,  *)
(* signed in or not; drafts are created and edited.                        *)
(***************************************************************************)
Routes == {"temp_1", "acc_1"}

PartialUpdates ==
  {FirmographicsUpdates(f) : f \in FirmographicsValues}
    \cup {BuyingSignalsUpdates(b) : b \in SignalsValues}

InitDrafts ==
  /\ raw = NoEntity /\ kind = "campaign" /\ out = NoEntity /\ out2 = NoEntity
  /\ user \in {NoUser, [id |-> "u1", obj |-> 1]}
  /\ mounted = [h \in Hooks |-> h = PageHook]
  /\ seenUser = [h \in Hooks |-> IF h = PageHook THEN user ELSE Unrendered]
  /\ token = [h \in Hooks |->
                IF h = PageHook /\ user # NoUser THEN TokenOf[user.id] ELSE NullToken]
  /\ loading = [h \in Hooks |-> h # PageHook]
  /\ prevAuthState =
       [h \in Hooks |-> IF h = PageHook THEN AuthStateOf(user, NullToken)
                        ELSE InitialAuthState]
  /\ authState =
       [h \in Hooks |-> IF h = PageHook THEN AuthStateOf(user, token[h])
                        ELSE InitialAuthState]
  /\ fetches = {}
  /\ globalAuthState = authState[PageHook]
  /\ cache = {}
  /\ mutations = {}
  /\ queries = {}
  /\ drafts = NoDrafts
  /\ savedAs = [t \in TempIds |-> "none"]
  /\ route \in Routes
  /\ firmographicsModalOpen = FALSE
  /\ buyingSignalsModalOpen = FALSE
  /\ accountUpdates = {}
  /\ lastCall = NoCall
  /\ buyingSignals = <<>>
  /\ UtilIdle
  /\ pendingGenerated = NoEntity
  /\ generations = <<>>
  /\ hasOverview = TRUE
  /\ isCreationModalOpen = FALSE
  /\ observers = {}
  /\ clearsThisCrossing = IF user # NoUser THEN 1 ELSE 0
  /\ flippedSinceClear = FALSE
  /\ calls = <<>>
  /\ lastCleared = {}

NextDrafts ==
  \/ \E k \in Kinds : SaveDraft(k, MaxStoredDrafts)
  \/ \E t \in UsedTempIds(drafts) \cup {FreshTempId(UsedTempIds(drafts))},
        u \in PartialUpdates : UpdateDraft("persona", t, u)
  \/ \E f \in FirmographicsValues : handleFirmographicsUpdate(f)
  \/ \E b \in SignalsValues : handleBuyingSignalsUpdate(b)
  \/ FetchAccount
  \/ OpenFirmographicsModal
  \/ OpenBuyingSignalsModal
  \/ \E u \in accountUpdates, success \in BOOLEAN : RemoteUpdateSettles(u, success)

SpecDrafts == InitDrafts /\ [][NextDrafts]_vars

(***************************************************************************)
(* The account page with generation: the page is open on the creation      *)
(* route, on the route of an unsaved account or on a persisted account.    *)
(***************************************************************************)
PageRoutes == {"new", "temp_1", "acc_1"}

InitPage ==
  /\ raw = NoEntity /\ kind = "campaign" /\ out = NoEntity /\ out2 = NoEntity
  /\ user \in {NoUser, [id |-> "u1", obj |-> 1]}
  /\ mounted = [h \in Hooks |-> h = PageHook]
  /\ seenUser = [h \in Hooks |-> IF h = PageHook THEN user ELSE Unrendered]
  /\ token = [h \in Hooks |->
                IF h = PageHook /\ user # NoUser THEN TokenOf[user.id] ELSE NullToken]
  /\ loading = [h \in Hooks |-> h # PageHook]
  /\ prevAuthState =
       [h \in Hooks |-> IF h = PageHook THEN AuthStateOf(user, NullToken)
                        ELSE InitialAuthState]
  /\ authState =
       [h \in Hooks |-> IF h = PageHook THEN AuthStateOf(user, token[h])
                        ELSE InitialAuthState]
  /\ fetches = {}
  /\ globalAuthState = authState[PageHook]
  /\ cache = {}
  /\ mutations = {}
  /\ queries = {}
  /\ drafts = NoDrafts
  /\ savedAs = [t \in TempIds |-> "none"]
  /\ route \in PageRoutes
  /\ firmographicsModalOpen = FALSE
  /\ buyingSignalsModalOpen = FALSE
  /\ accountUpdates = {}
  /\ lastCall = NoCall
  /\ buyingSignals = <<>>
  /\ UtilIdle
  /\ pendingGenerated = NoEntity
  /\ generations = <<>>
  /\ hasOverview \in BOOLEAN
  /\ isCreationModalOpen = (route = "new")
  /\ observers = {}
  /\ clearsThisCrossing = IF user # NoUser THEN 1 ELSE 0
  /\ flippedSinceClear = FALSE
  /\ calls = <<>>
  /\ lastCleared = {}

NextPage ==
  \/ handleCreateAccount
  \/ handleGenerate
  \/ \E i \in DOMAIN generations, success \in BOOLEAN : GenerateSettles(i, success)
  \/ \E i \in DOMAIN generations, success \in BOOLEAN :
       CreateAccountSettles(i, success)
  \/ SaveDraft("account", MaxDrafts)
  \/ FetchAccount
  \/ \E t \in UsedTempIds(drafts), u \in PartialUpdates :
       UpdateDraft("account", t, u)

SpecPage == InitPage /\ [][NextPage]_vars

(***************************************************************************)
(* The auth hook alone: identities come and go, instances mount, render   *)
(* and unmount, token fetches settle with a token, an empty token or a    *)
(* rejection.                                                              *)
(***************************************************************************)
FetchOutcomes == {"token", "empty", "rejected"}

NextAuth ==
  \/ \E h \in Hooks : Mount(h) /\ CleanedUp(h)
  \/ \E h \in Hooks : Render(h) /\ CleanedUp(h)
  \/ \E h \in Hooks : Unmount(h) /\ CleanedUp(h)
  \/ SignIn("u1")
  \/ SignOut
  \/ SwitchUser("u2")
  \/ \E f \in fetches, outcome \in FetchOutcomes :
       FetchSettles(f, outcome) /\ UNCHANGED stale
  \/ \E f \in stale, outcome \in FetchOutcomes : StaleFetchSettles(f, outcome)

SpecAuth == Init /\ [][NextAuth]_vars

(***************************************************************************)
(* The token fetch of the auth hook: MaxFetchHooks components, every       *)
(* identity change, fetches settling before and after their cleanup.       *)
(***************************************************************************)
MaxFetchHooks == 1

FetchHooks == 1..MaxFetchHooks

NextFetch ==
  \/ \E h \in FetchHooks : Mount(h) /\ CleanedUp(h)
  \/ \E h \in FetchHooks : Render(h) /\ CleanedUp(h)
  \/ \E h \in FetchHooks : Unmount(h) /\ CleanedUp(h)
  \/ SignIn("u1")
  \/ SignOut
  \/ SwitchUser("u2")
  \/ \E f \in fetches, outcome \in FetchOutcomes :
       FetchSettles(f, outcome) /\ UNCHANGED stale
  \/ \E f \in stale, outcome \in FetchOutcomes : StaleFetchSettles(f, outcome)

SpecFetch == Init /\ [][NextFetch]_vars

(***************************************************************************)
(* Concurrent updates of campaigns: a signed-in component issues update    *)
(* requests without waiting, and the responses arrive in any order.        *)
(***************************************************************************)
MaxConcurrent == 2

UpdateMutation(id, data) ==
  [op |-> "update", campaignId |-> id, data |-> data, prior |-> FALSE]

\* history: the request joins the requests in flight, in issue order
RecordIssue(m) ==
  /\ m \notin mutations
  /\ issued' = Append(issued, m)
  /\ UNCHANGED <<lastArrived, overtaken>>

IssuedBefore(m) ==
  {issued[i] : i \in {j \in DOMAIN issued :
                        \E k \in DOMAIN issued : j < k /\ issued[k] = m}}

\* history: the response of m arrived; the requests for the same campaign
\* issued before m and still in flight have been overtaken
RecordArrival(m) ==
  /\ issued' = SelectSeq(issued, LAMBDA x : x # m)
  /\ lastArrived' =
       [lastArrived EXCEPT ![m.campaignId] =
          [arrived |-> TRUE, data |-> m.data, late |-> m \in overtaken]]
  /\ overtaken' =
       (overtaken \cup {x \in IssuedBefore(m) : x.campaignId = m.campaignId})
         \ {m}

\* history: the request of m failed, no response to store
RecordFailure(m) ==
  /\ issued' = SelectSeq(issued, LAMBDA x : x # m)
  /\ overtaken' = overtaken \ {m}
  /\ UNCHANGED lastArrived

InitConcurrent ==
  /\ raw = NoEntity /\ kind = "campaign" /\ out = NoEntity /\ out2 = NoEntity
  /\ user = [id |-> "u1", obj |-> 1]
  /\ mounted = [h \in Hooks |-> h = PageHook]
  /\ seenUser = [h \in Hooks |-> IF h = PageHook THEN user ELSE Unrendered]
  /\ token = [h \in Hooks |->
                IF h = PageHook /\ user # NoUser THEN TokenOf[user.id] ELSE NullToken]
  /\ loading = [h \in Hooks |-> h # PageHook]
  /\ prevAuthState =
       [h \in Hooks |-> IF h = PageHook THEN AuthStateOf(user, NullToken)
                        ELSE InitialAuthState]
  /\ authState =
       [h \in Hooks |-> IF h = PageHook THEN AuthStateOf(user, token[h])
                        ELSE InitialAuthState]
  /\ fetches = {}
  /\ globalAuthState = authState[PageHook]
  /\ cache = {}
  /\ mutations = {}
  /\ queries = {}
  /\ drafts = NoDrafts
  /\ savedAs = [t \in TempIds |-> "none"]
  /\ route = ""
  /\ firmographicsModalOpen = FALSE
  /\ buyingSignalsModalOpen = FALSE
  /\ accountUpdates = {}
  /\ lastCall = NoCall
  /\ buyingSignals = <<>>
  /\ UtilIdle
  /\ pendingGenerated = NoEntity
  /\ generations = <<>>
  /\ hasOverview = TRUE
  /\ isCreationModalOpen = FALSE
  /\ observers = {}
  /\ clearsThisCrossing = IF user # NoUser THEN 1 ELSE 0
  /\ flippedSinceClear = FALSE
  /\ calls = <<>>
  /\ lastCleared = {}

NextConcurrent ==
  \/ \E id \in ConcurrentIds, data \in CampaignData :
       /\ UpdateCampaign(id, data, MaxConcurrent)
       /\ RecordIssue(UpdateMutation(id, data))
  \/ \E m \in mutations : UpdateSucceeds(m) /\ RecordArrival(m)
  \/ \E m \in mutations : MutationFails(m) /\ RecordFailure(m)

SpecConcurrent == InitConcurrent /\ [][NextConcurrent]_vars

(***************************************************************************)
(* The buying signals list of the account page: the page is open on a      *)
(* stored draft, a fetched account or nothing; signals are added through    *)
(* the modal and remote updates settle.                                     *)
(***************************************************************************)
InitSignals ==
  /\ raw = NoEntity /\ kind = "campaign" /\ out = NoEntity /\ out2 = NoEntity
  /\ user \in {NoUser, [id |-> "u1", obj |-> 1]}
  /\ mounted = [h \in Hooks |-> h = PageHook]
  /\ seenUser = [h \in Hooks |-> IF h = PageHook THEN user ELSE Unrendered]
  /\ token = [h \in Hooks |->
                IF h = PageHook /\ user # NoUser THEN TokenOf[user.id] ELSE NullToken]
  /\ loading = [h \in Hooks |-> h # PageHook]
  /\ prevAuthState =
       [h \in Hooks |-> IF h = PageHook THEN AuthStateOf(user, NullToken)
                        ELSE InitialAuthState]
  /\ authState =
       [h \in Hooks |-> IF h = PageHook THEN AuthStateOf(user, token[h])
                        ELSE InitialAuthState]
  /\ fetches = {}
  /\ globalAuthState = authState[PageHook]
  /\ cache \in {{}} \cup
       (IF user # NoUser
        THEN {setQueryData({}, QueryKey("account", "acc_1"),
                           normalizeAccountResponse(SavedAccount("acc_1")), FALSE)}
        ELSE {})
  /\ mutations = {}
  /\ queries = {}
  /\ \E stored \in BOOLEAN :
       /\ drafts = IF stored
                   THEN saveDraft(NoDrafts, "account", NewDraft("temp_1", "account"))
                   ELSE NoDrafts
       /\ savedAs = [t \in TempIds |->
                       IF stored /\ t = "temp_1" THEN "account" ELSE "none"]
  /\ route \in Routes
  /\ firmographicsModalOpen = FALSE
  /\ buyingSignalsModalOpen = FALSE
  /\ accountUpdates = {}
  /\ lastCall = NoCall
  /\ buyingSignals = <<>>
  /\ UtilIdle
  /\ pendingGenerated = NoEntity
  /\ generations = <<>>
  /\ hasOverview = TRUE
  /\ isCreationModalOpen = FALSE
  /\ observers = {}
  /\ clearsThisCrossing = IF user # NoUser THEN 1 ELSE 0
  /\ flippedSinceClear = FALSE
  /\ calls = <<>>
  /\ lastCleared = {}

NextSignals ==
  \/ OpenBuyingSignalsModal
  \/ \E newSignal \in NewSignals : EditBuyingSignalSave(newSignal)
  \/ \E u \in accountUpdates : RemoteUpdateStored(u)
  \/ \E u \in accountUpdates : RemoteUpdateSettles(u, FALSE)

SpecSignals == InitSignals /\ [][NextSignals]_vars

(***************************************************************************)
(* The rate limit helper applied to the headers of a response.             *)
(***************************************************************************)
InitRateLimit ==
  /\ raw = NoEntity /\ kind = "campaign" /\ out = NoEntity /\ out2 = NoEntity
  /\ user = NoUser
  /\ mounted = [h \in Hooks |-> FALSE]
  /\ seenUser = [h \in Hooks |-> Unrendered]
  /\ token = [h \in Hooks |-> NullToken]
  /\ loading = [h \in Hooks |-> TRUE]
  /\ prevAuthState = [h \in Hooks |-> InitialAuthState]
  /\ authState = [h \in Hooks |-> InitialAuthState]
  /\ fetches = {}
  /\ globalAuthState = InitialAuthState
  /\ cache = {}
  /\ mutations = {}
  /\ queries = {}
  /\ drafts = NoDrafts
  /\ savedAs = [t \in TempIds |-> "none"]
  /\ route = ""
  /\ firmographicsModalOpen = FALSE
  /\ buyingSignalsModalOpen = FALSE
  /\ accountUpdates = {}
  /\ lastCall = NoCall
  /\ buyingSignals = <<>>
  /\ response \in Responses
  /\ rateLimitInfo = Unparsed
  /\ localStorage = NothingStored
  /\ lsResult = NoResult
  /\ NoOrder
  /\ stale = {}
  /\ pendingGenerated = NoEntity
  /\ generations = <<>>
  /\ hasOverview = TRUE
  /\ isCreationModalOpen = FALSE
  /\ observers = {}
  /\ clearsThisCrossing = 0
  /\ flippedSinceClear = FALSE
  /\ calls = <<>>
  /\ lastCleared = {}

ParseRateLimit ==
  /\ rateLimitInfo' = parseRateLimitHeaders(response)
  /\ UNCHANGED <<raw, kind, out, out2, response, localStorage, lsResult,
                 orderVars, stale, buyingSignals,
                 identityVars, hookVars, cacheVars, draftVars, pageVars,
                 historyVars>>

NextRateLimit == ParseRateLimit

SpecRateLimit == InitRateLimit /\ [][NextRateLimit]_vars

(***************************************************************************)
(* The local-storage service of target accounts and their personas.        *)
(***************************************************************************)
InitStorage ==
  /\ raw = NoEntity /\ kind = "campaign" /\ out = NoEntity /\ out2 = NoEntity
  /\ user = NoUser
  /\ mounted = [h \in Hooks |-> FALSE]
  /\ seenUser = [h \in Hooks |-> Unrendered]
  /\ token = [h \in Hooks |-> NullToken]
  /\ loading = [h \in Hooks |-> TRUE]
  /\ prevAuthState = [h \in Hooks |-> InitialAuthState]
  /\ authState = [h \in Hooks |-> InitialAuthState]
  /\ fetches = {}
  /\ globalAuthState = InitialAuthState
  /\ cache = {}
  /\ mutations = {}
  /\ queries = {}
  /\ drafts = NoDrafts
  /\ savedAs = [t \in TempIds |-> "none"]
  /\ route = ""
  /\ firmographicsModalOpen = FALSE
  /\ buyingSignalsModalOpen = FALSE
  /\ accountUpdates = {}
  /\ lastCall = NoCall
  /\ buyingSignals = <<>>
  /\ response = NoResponse
  /\ rateLimitInfo = Unparsed
  /\ localStorage = NothingStored
  /\ lsResult = NoResult
  /\ NoOrder
  /\ stale = {}
  /\ pendingGenerated = NoEntity
  /\ generations = <<>>
  /\ hasOverview = TRUE
  /\ isCreationModalOpen = FALSE
  /\ observers = {}
  /\ clearsThisCrossing = 0
  /\ flippedSinceClear = FALSE
  /\ calls = <<>>
  /\ lastCleared = {}

NextStorage ==
  \/ ReadStoredTargetAccounts
  \/ \E account \in NewTargetAccounts : saveTargetAccount(account)
  \/ \E id \in AccountIds : deleteTargetAccount(id)
  \/ \E accountId \in AccountIds : getPersonasForTargetAccount(accountId)
  \/ \E accountId \in AccountIds, persona \in TargetPersonas :
       addPersonaToTargetAccount(accountId, persona)
  \/ \E accountId \in AccountIds, persona \in TargetPersonas :
       updatePersonaForTargetAccount(accountId, persona)
  \/ \E accountId \in AccountIds, personaId \in PersonaIds :
       deletePersonaFromTargetAccount(accountId, personaId)
  \/ getAllPersonas
  \/ StorageCorrupted

SpecStorage == InitStorage /\ [][NextStorage]_vars

(***************************************************************************)
(* Bounded raw entities for the normalizer specification.                  *)
(***************************************************************************)
MaxDataKeys == 2

DataKeys == {"id", "type", "name", "data", "target_persona_name",
             "targetPersonaName", "x_y", "_x"}

InnerMaps == {One("x_y", S("v1")), One("xY", S("v2"))}

DataVals == {S("VP Sales"), S("v2")} \cup {M(m) : m \in InnerMaps}
              \cup {L(<<M(One("x_y", S("v1")))>>)}

DataMaps ==
  UNION {[d -> DataVals] : d \in {s \in SUBSET DataKeys : Cardinality(s) <= MaxDataKeys}}

RawEntities ==
  {Spread(Spread([id |-> S("1"), name |-> S("n")], t), d) :
     t \in {EmptyMap, One("type", S("email"))},
     d \in {EmptyMap} \cup {One("data", M(m)) : m \in DataMaps}}


InitNormalize ==
  /\ raw \in RawEntities
  /\ kind \in {"campaign", "persona"}
  /\ out = NoEntity
  /\ out2 = NoEntity
  /\ user = NoUser
  /\ mounted = [h \in Hooks |-> FALSE]
  /\ seenUser = [h \in Hooks |-> Unrendered]
  /\ token = [h \in Hooks |-> NullToken]
  /\ loading = [h \in Hooks |-> TRUE]
  /\ prevAuthState = [h \in Hooks |-> InitialAuthState]
  /\ authState = [h \in Hooks |-> InitialAuthState]
  /\ fetches = {}
  /\ globalAuthState = InitialAuthState
  /\ cache = {}
  /\ mutations = {}
  /\ queries = {}
  /\ drafts = NoDrafts
  /\ savedAs = [t \in TempIds |-> "none"]
  /\ route = ""
  /\ firmographicsModalOpen = FALSE
  /\ buyingSignalsModalOpen = FALSE
  /\ accountUpdates = {}
  /\ lastCall = NoCall
  /\ buyingSignals = <<>>
  /\ UtilIdle
  /\ pendingGenerated = NoEntity
  /\ generations = <<>>
  /\ hasOverview = TRUE
  /\ isCreationModalOpen = FALSE
  /\ observers = {}
  /\ clearsThisCrossing = 0
  /\ flippedSinceClear = FALSE
  /\ calls = <<>>
  /\ lastCleared = {}

normalize(k, e) ==
  IF k = "campaign" THEN normalizeCampaignResponse(e)
  ELSE normalizePersonaResponse(e)

\* getCampaign / getPersona: the fetched entity is normalized once
Normalize ==
  /\ out = NoEntity
  /\ out' = normalize(kind, raw)
  /\ UNCHANGED <<raw, kind, out2, utilVars, orderVars, stale, buyingSignals,
                 identityVars, hookVars, cacheVars, draftVars,
                 pageVars,
                 historyVars>>

\* a normalized entity read back from the cache is normalized again
Renormalize ==
  /\ out # NoEntity
  /\ out2 = NoEntity
  /\ out2' = normalize(kind, out)
  /\ UNCHANGED <<raw, kind, out, utilVars, orderVars, stale, buyingSignals,
                 identityVars, hookVars, cacheVars, draftVars,
                 pageVars,
                 historyVars>>

NextNormalize == Normalize \/ Renormalize

SpecNormalize == InitNormalize /\ [][NextNormalize]_vars

(***************************************************************************)
(* Properties of the auth transitions.                                     *)
(***************************************************************************)
WipeOps == {"clearDraftsOnAuthChange", "queryClient.clear",
            "invalidateQueries:company", "invalidateQueries:companies"}

Called(trace, op) == \E i \in DOMAIN trace : trace[i].op = op

\* C1: when the authenticated flag an instance observes flips between two
\* consecutive evaluations, in either direction, its handler has called
\* clearDraftsOnAuthChange with that transition and the cache holds none of
\* the entities it held before.
C1_FlipWipesCacheAndDrafts ==
  [][\A h \in Hooks :
       (/\ mounted[h] /\ mounted'[h]
        /\ authState[h].isAuthenticated # authState'[h].isAuthenticated)
       => /\ calls' # <<>>
          /\ calls'[1] = Call("clearDraftsOnAuthChange",
                              ~authState[h].isAuthenticated,
                              authState'[h].isAuthenticated)
          /\ Called(calls', "queryClient.clear")
          /\ \A e \in cache : \A e2 \in cache' : e2.entity # e.entity
          /\ lastCleared' = {e.key : e \in cache}]_vars

\* the handler has just run for a sign-out and dropped cached entities
C1_Witness ==
  /\ calls # <<>>
  /\ calls[1] = Call("clearDraftsOnAuthChange", FALSE, FALSE)
  /\ lastCleared # {}
  /\ cache = {}
  /\ user = NoUser

\* C2: drafts are cleared and the cache is wiped only when the session's
\* authenticated status flipped since the last wipe; re-renders, identity
\* object changes, mounts and unmounts without a flip invoke none of the
\* handler's calls.
C2_WipeOnlyOnFlip ==
  [][(\E i \in DOMAIN calls' : calls'[i].op \in WipeOps) => flippedSinceClear]_vars

\* C3: once the instances subscribed at a boundary crossing have rendered
\* it, clearDraftsOnAuthChange has been called exactly once for the crossing.
C3_ClearExactlyOncePerCrossing ==
  (observers # {} /\ \A h \in observers : seenUser[h] = user)
    => clearsThisCrossing = 1

\* C4: once a boundary crossing has been handled, the cache holds no entity
\* written by a request that was issued under the previous auth state.
C4_NoCrossSessionEntity ==
  ~flippedSinceClear => \A e \in cache : ~e.prior

\* the camelCased data mapping of the raw entity
CamelData == transformKeysToCamelCase(DataOrEmpty(raw)).m

\* C8: normalizing an already normalized campaign or persona changes nothing:
\* normalize(normalize(x)) = normalize(x).
C8_NormalizeIdempotent == out2 # NoEntity => out2 = out

\* a twice-normalized entity whose data has a key colliding with a top-level
\* field and a snake_case key that normalization rewrote
C8_Witness ==
  /\ out2 # NoEntity
  /\ "data" \in DOMAIN raw
  /\ {"data", "x_y"} \subseteq DOMAIN raw["data"].m
  /\ out # raw

\* C9: the normalized entity's top-level id and type equal the raw entity's,
\* whatever keys the nested data holds.
C9_IdTypeNeverOverridden ==
  out # NoEntity =>
    /\ Get(out, "id") = Get(raw, "id")
    /\ Get(out, "type") = Get(raw, "type")

\* C10 as claimed: every key of the camelCased data is a top-level field with
\* the same value, and data holds the camelCased mapping.
C10_EveryDataKeyFlattened ==
  out # NoEntity =>
    /\ \A k \in DOMAIN CamelData : Get(out, k) = CamelData[k]
    /\ Get(out, "data") = M(CamelData)

\* the keys the normalizer re-asserts after spreading data
Reasserted(k) == IF k = "campaign" THEN {"data", "type"} ELSE {"data"}

\* C10 amended: every key of the camelCased data other than the re-asserted
\* ones (data; type for campaigns) is a top-level field with the same value,
\* and data holds the camelCased mapping (the empty one when raw has no data).
C10_DataKeysFlattened ==
  out # NoEntity =>
    /\ \A k \in DOMAIN CamelData \ Reasserted(kind) : Get(out, k) = CamelData[k]
    /\ Get(out, "data") = M(CamelData)
    /\ ("data" \notin DOMAIN raw => Get(out, "data") = M(EmptyMap))

\* the round trip of the specification's example
C10_Witness ==
  /\ raw = [id |-> S("1"), name |-> S("n"), type |-> S("email"),
            data |-> M(One("target_persona_name", S("VP Sales")))]
  /\ Get(out, "targetPersonaName") = S("VP Sales")
  /\ Get(out, "data") = M(One("targetPersonaName", S("VP Sales")))


(***************************************************************************)
(* Draft Manager claims, checked under SpecDrafts.                         *)
(***************************************************************************)
IsUpdate(call) == call.op = "updateDraftPreserveFields"

\* C5: updateDraftPreserveFields on an existing draft is a field-preserving
\* merge.  On every successful call, every field named in the partial update
\* takes the new value at the top level and inside data, every field not named
\* keeps its prior value in both places, and no other draft changes; the
\* buying-signals handler leaves firmographics as it was and the firmographics
\* handler leaves buyingSignals as it was.  Being a property of every step, it
\* covers every sequence of updates.
C5_FieldPreservingMerge ==
  [][(IsUpdate(lastCall') /\ lastCall'.ok) =>
       LET k == lastCall'.kind
           i == DraftIndex(drafts[k], lastCall'.tempId)
           before == drafts[k][i]
           after == drafts'[k][i]
           named == DOMAIN lastCall'.updates
       IN  /\ i # 0
           /\ DOMAIN drafts'[k] = DOMAIN drafts[k]
           /\ \A f \in named :
                /\ Get(after, f) = lastCall'.updates[f]
                /\ Get(Get(after, "data").m, f) = lastCall'.updates[f]
           /\ \A f \in (DOMAIN before \cup DOMAIN after) \ (named \cup {"data"}) :
                Get(after, f) = Get(before, f)
           /\ \A f \in (DOMAIN Get(before, "data").m
                           \cup DOMAIN Get(after, "data").m) \ named :
                Get(Get(after, "data").m, f) = Get(Get(before, "data").m, f)
           /\ (lastCall'.by = "handleBuyingSignalsUpdate"
                 => Get(after, "firmographics") = Get(before, "firmographics"))
           /\ (lastCall'.by = "handleFirmographicsUpdate"
                 => Get(after, "buyingSignals") = Get(before, "buyingSignals"))
           /\ \A j \in DOMAIN drafts[k] \ {i} : drafts'[k][j] = drafts[k][j]
           /\ \A k2 \in Kinds \ {k} : drafts'[k2] = drafts[k2]
    ]_vars

\* the buying-signals handler has just updated a draft whose firmographics
\* were edited before: both edits are on the draft
C5_Witness ==
  /\ IsUpdate(lastCall) /\ lastCall.ok
  /\ lastCall.by = "handleBuyingSignalsUpdate"
  /\ \E i \in DOMAIN drafts["account"] :
       /\ Get(drafts["account"][i], "tempId") = S(lastCall.tempId)
       /\ Get(drafts["account"][i], "firmographics") \in FirmographicsValues
       /\ Get(drafts["account"][i], "buyingSignals") \in SignalsValues
       /\ Get(Get(drafts["account"][i], "data").m, "firmographics")
            \in FirmographicsValues

\* C6: updateDraftPreserveFields called with a tempId that matches no stored
\* draft of that kind returns false and leaves every stored draft of every
\* kind unchanged.
C6_MissingDraftUpdateIsNoOp ==
  [][(IsUpdate(lastCall')
        /\ DraftIndex(drafts[lastCall'.kind], lastCall'.tempId) = 0)
       => (~lastCall'.ok /\ drafts' = drafts)
    ]_vars

\* a call has just failed for a tempId that is stored, but under the other
\* kind, while drafts of the addressed kind exist
C6_Witness ==
  /\ IsUpdate(lastCall) /\ ~lastCall.ok
  /\ lastCall.tempId \in UsedTempIds(drafts)
  /\ drafts[lastCall.kind] # <<>>
  /\ DraftIndex(drafts[lastCall.kind], lastCall.tempId) = 0

\* every draft is in the list of the kind it was saved under
IsolatedByKind ==
  \A k \in Kinds : \A i \in DOMAIN getDrafts(drafts, k) :
    savedAs[Get(getDrafts(drafts, k)[i], "tempId").s] = k

\* C7: draft isolation by kind.  After every draft operation getDrafts(k)
\* holds only drafts saved under kind k, and an update addressed to a draft of
\* one kind leaves the list of every other kind unchanged.
C7_DraftIsolationByKind ==
  [][/\ IsolatedByKind'
     /\ IsUpdate(lastCall')
          => \A k2 \in Kinds \ {lastCall'.kind} : drafts'[k2] = drafts[k2]
    ]_vars

\* drafts of both kinds are stored and one of them has just been updated
C7_Witness ==
  /\ \A k \in Kinds : getDrafts(drafts, k) # <<>>
  /\ IsUpdate(lastCall) /\ lastCall.ok
  /\ Get(getDrafts(drafts, lastCall.kind)[1], "buyingSignals") \in SignalsValues

(***************************************************************************)
(* Auth State Store claims, checked under SpecAuth.                        *)
(***************************************************************************)
\* C11: the state exposed by useAuthState follows the Unauthenticated /
\* Resolving / Authenticated machine.  In every reachable state an instance
\* that exposes isAuthenticated = TRUE exposes a non-null token, and that
\* token is the one fetched for the identity it exposes.
C11_AuthenticatedOnlyWithToken ==
  \A h \in Hooks :
    (mounted[h] /\ authState[h].isAuthenticated)
      => /\ authState[h].token # NullToken
         /\ authState[h].token = TokenOf[authState[h].userInfo]

(***************************************************************************)
(* Account page claims, checked under SpecDrafts.                          *)
(***************************************************************************)
\* a step of one of the two edit handlers of the account page
HandlerStep ==
  \/ \E f \in FirmographicsValues : handleFirmographicsUpdate(f)
  \/ \E b \in SignalsValues : handleBuyingSignalsUpdate(b)

PageAuthenticated == authState[PageHook].isAuthenticated

\* the entity the page shows is a stored draft / a persisted account
PageEntityIsDraft == displayEntity # NoEntity /\ "tempId" \in DOMAIN displayEntity

PageEntityIsPersisted == displayEntity # NoEntity /\ "id" \in DOMAIN displayEntity

IsRemote(call) == call.op = "updateWithFieldPreservation"

\* C12: account edits are routed by authentication and target.  In every
\* handler step: if the user is authenticated and the page's entity is
\* persisted, the remote field-preserving update is issued and the draft store
\* is not written; if the user is unauthenticated or the page's entity is a
\* draft, no remote update is issued.
C12_EditRoutedByAuthAndTarget ==
  [][HandlerStep =>
       /\ (PageAuthenticated /\ PageEntityIsPersisted)
            => (IsRemote(lastCall') /\ drafts' = drafts)
       /\ (~PageAuthenticated \/ PageEntityIsDraft)
            => (~IsRemote(lastCall') /\ accountUpdates' = accountUpdates)
    ]_vars

(***************************************************************************)
(* Entity page claims, checked under SpecPage.                             *)
(***************************************************************************)
\* C13: displayEntity is resolved by strict priority.  In every state it is
\* the pending generation result if there is one, otherwise the draft the
\* route denotes if there is one, otherwise the cached account; so it equals
\* one of the three sources (or nothing when all are absent) and is never a
\* merge of two.
C13_DisplayEntityStrictPriority ==
  /\ pendingGenerated # NoEntity => displayEntity = pendingGenerated
  /\ (pendingGenerated = NoEntity /\ RouteDraft # NoEntity)
       => displayEntity = RouteDraft
  /\ (pendingGenerated = NoEntity /\ RouteDraft = NoEntity)
       => displayEntity = CachedEntity(QueryKey("account", route))
  /\ displayEntity \in {pendingGenerated, RouteDraft,
                         CachedEntity(QueryKey("account", route))}

\* all three sources are present and pairwise different; the page shows the
\* pending result
C13_Witness ==
  /\ pendingGenerated # NoEntity
  /\ RouteDraft # NoEntity
  /\ CachedEntity(QueryKey("account", route)) # NoEntity
  /\ pendingGenerated # RouteDraft
  /\ RouteDraft # CachedEntity(QueryKey("account", route))
  /\ displayEntity = pendingGenerated

\* invocation i fails in this step
FailsNow(i) ==
  /\ i \in DOMAIN generations
  /\ generations[i].phase \in {"generating", "creating"}
  /\ generations'[i].phase = "failed"

\* C20: generation carries no automatic retry.  Every invocation issues at
\* most one generate request; its error handler has run exactly once if it
\* failed and not at all otherwise; the step in which it fails issues no
\* request, starts no invocation and leaves the working entity of the page
\* and the entity the page shows unchanged.
C20_GenerationNotRetried ==
  [][/\ \A i \in DOMAIN generations' :
          /\ generations'[i].requests <= 1
          /\ generations'[i].errors = IF generations'[i].phase = "failed" THEN 1 ELSE 0
     /\ \A i \in DOMAIN generations :
          FailsNow(i) =>
            /\ Len(generations') = Len(generations)
            /\ \A j \in DOMAIN generations :
                 generations'[j].requests = generations[j].requests
            /\ pendingGenerated' = pendingGenerated
            /\ displayEntity' = displayEntity
    ]_vars

\* a generation has failed while the page holds a working entity
C20_Witness ==
  /\ pendingGenerated # NoEntity
  /\ \E i \in DOMAIN generations :
       /\ generations[i].phase = "failed"
       /\ generations[i].errors = 1
       /\ generations[i].requests = 1

(***************************************************************************)
(* Cache mirror of draft edits, checked under SpecDrafts.                  *)
(***************************************************************************)
EntityIn(c, key) ==
  IF \E e \in c : e.key = key
  THEN (CHOOSE e \in c : e.key = key).entity
  ELSE NoEntity

ByHandler(call) ==
  call.by \in {"handleFirmographicsUpdate", "handleBuyingSignalsUpdate"}

\* C14: after a successful draft-path edit of one field the cached account
\* under ['account', accountId] has that field equal to the new value at top
\* level and inside data, every other field of it is unchanged, and it agrees
\* with the edited draft on that field; if no cache entry existed for the id,
\* none is created.
C14_CacheMirrorsDraftEdit ==
  [][(ByHandler(lastCall') /\ IsUpdate(lastCall') /\ lastCall'.ok) =>
       LET key == QueryKey("account", route)
           before == EntityIn(cache, key)
           after == EntityIn(cache', key)
           f == CHOOSE g \in DOMAIN lastCall'.updates : TRUE
           v == lastCall'.updates[f]
           i == DraftIndex(drafts'["account"], lastCall'.tempId)
       IN  IF before = NoEntity
           THEN cache' = cache
           ELSE /\ Get(after, f) = v
                /\ Get(Get(after, "data").m, f) = v
                /\ \A g \in (DOMAIN before \cup DOMAIN after) \ {f, "data"} :
                     Get(after, g) = Get(before, g)
                /\ \A g \in (DOMAIN Get(before, "data").m
                                \cup DOMAIN Get(after, "data").m) \ {f} :
                     Get(Get(after, "data").m, g) = Get(Get(before, "data").m, g)
                /\ Get(drafts'["account"][i], f) = Get(after, f)
    ]_vars

\* the instance has rendered the current identity and its current token
UpToDate(h) ==
  mounted[h] /\ seenUser[h] = user /\ authState[h].token = token[h]

\* C15: getAuthState() returns the auth state most recently computed by the
\* auth hook and has one writer.  In every reachable state the global value
\* equals the state of every mounted useAuthState instance that has rendered
\* the current identity and token, however many instances are mounted.
C15_GlobalIsHookState ==
  \A h \in Hooks : UpToDate(h) => globalAuthState = authState[h]

(***************************************************************************)
(* Rate limit helper claim, checked under SpecRateLimit.                   *)
(***************************************************************************)
\* the integer a string of decimal digits denotes, read from the right
RECURSIVE IntegerOf(_)
IntegerOf(str) ==
  IF Len(str) = 1 THEN DigitValue(str[1])
  ELSE 10 * IntegerOf(SubSeq(str, 1, Len(str) - 1)) + DigitValue(str[Len(str)])

HoldsInteger(h) == h.present /\ h.value # <<>>

\* C16: with X-RateLimit-Limit, X-RateLimit-Remaining and X-RateLimit-Reset
\* all present and holding integers, the result carries the three as
\* integers, and Retry-After as an integer when it is present and undefined
\* when it is absent; when any of the three is absent the result is null.
C16_RateLimitHeadersParsed ==
  rateLimitInfo.parsed =>
    /\ (HoldsInteger(response.limit) /\ HoldsInteger(response.remaining)
          /\ HoldsInteger(response.reset))
         => /\ ~rateLimitInfo.null
            /\ rateLimitInfo.limit = IntegerOf(response.limit.value)
            /\ rateLimitInfo.remaining = IntegerOf(response.remaining.value)
            /\ rateLimitInfo.reset = IntegerOf(response.reset.value)
            /\ HoldsInteger(response.retryAfter)
                 => rateLimitInfo.retryAfter
                      = Number(IntegerOf(response.retryAfter.value))
            /\ ~response.retryAfter.present
                 => rateLimitInfo.retryAfter = UndefinedNumber
    /\ (~response.limit.present \/ ~response.remaining.present
          \/ ~response.reset.present)
         => rateLimitInfo.null

\* a response out of quota: Remaining is "0", Retry-After is absent
C16_Witness ==
  /\ rateLimitInfo.parsed
  /\ response.limit = Header(<<"7", "0">>)
  /\ response.remaining = Header(<<"0">>)
  /\ response.reset = Header(<<"7">>)
  /\ ~response.retryAfter.present
  /\ ~rateLimitInfo.null
  /\ rateLimitInfo.limit = 70
  /\ rateLimitInfo.remaining = 0
  /\ rateLimitInfo.retryAfter = UndefinedNumber

(***************************************************************************)
(* Concurrent update claim, checked under SpecConcurrent.                  *)
(***************************************************************************)
UpdatesInFlight(id) ==
  {m \in mutations : m.op = "update" /\ m.campaignId = id}

\* C17: once every update request for a campaign id has completed, the cache
\* entry for the id is the normalized response of the request whose response
\* arrived last, whatever the order the requests were issued in.
C17_LastArrivedUpdateWins ==
  \A id \in ConcurrentIds :
    (UpdatesInFlight(id) = {} /\ lastArrived[id].arrived)
      => EntityIn(cache, QueryKey("campaign", id))
           = normalizeCampaignResponse(SavedCampaign(id, lastArrived[id].data))

\* two updates of c1 were in flight together and the one issued first
\* answered last: its response is the entry, not that of the later request
C17_Witness ==
  /\ mutations = {}
  /\ lastArrived["c1"].arrived
  /\ lastArrived["c1"].late
  /\ lastArrived["c1"].data = ExampleData
  /\ EntityIn(cache, QueryKey("campaign", "c1"))
       = normalizeCampaignResponse(SavedCampaign("c1", ExampleData))

(***************************************************************************)
(* Local-storage claims, checked under SpecStorage.                        *)
(***************************************************************************)
\* the stored list can be read and holds no account with the id
AccountMissing(accountId) ==
  /\ localStorage.state # "corrupt"
  /\ FindIndex(localStorage.accounts, accountId) = 0

\* the stored list holds the account, and the account no persona with the id
PersonaMissing(accountId, personaId) ==
  /\ localStorage.state = "json"
  /\ LET idx == FindIndex(localStorage.accounts, accountId)
     IN  /\ idx > 0
         /\ FindIndex(localStorage.accounts[idx].personas.list, personaId) = 0

PersonaWrites ==
  {"addPersonaToTargetAccount", "updatePersonaForTargetAccount",
   "deletePersonaFromTargetAccount"}

\* C18: adding, updating or deleting a persona under an account id that is
\* not stored, and updating a persona the account does not hold, raises
\* nothing and leaves the stored list as it was; the personas of an unknown
\* account are the empty list.
C18_LookupMissIsSilentNoOp ==
  [][ /\ (/\ lsResult'.op \in PersonaWrites
          /\ \/ AccountMissing(lsResult'.accountId)
             \/ /\ lsResult'.op = "updatePersonaForTargetAccount"
                /\ PersonaMissing(lsResult'.accountId, lsResult'.personaId))
         => (~lsResult'.threw /\ localStorage' = localStorage)
      /\ (/\ lsResult'.op = "getPersonasForTargetAccount"
          /\ AccountMissing(lsResult'.accountId))
         => (~lsResult'.threw /\ lsResult'.value = <<>>
              /\ localStorage' = localStorage) ]_vars

\* a persona was added under a2 while only a1 is stored, a1 has its persona
C18_Witness ==
  /\ lsResult.op = "addPersonaToTargetAccount"
  /\ lsResult.accountId = "a2"
  /\ ~lsResult.threw
  /\ localStorage.state = "json"
  /\ Len(localStorage.accounts) = 1
  /\ localStorage.accounts[1].id = "a1"
  /\ Len(localStorage.accounts[1].personas.list) = 1

\* C19: reading the stored target accounts never raises to the caller: with
\* nothing stored the result is the empty list, and a corrupted stored value
\* gives an empty or failed result instead of an exception.
C19_StoredReadNeverRaises ==
  lsResult.op = "getStoredTargetAccounts"
    => /\ ~lsResult.threw
       /\ localStorage.state = "absent" => lsResult.value = <<>>

(***************************************************************************)
(* Account page claims on the draft path, checked under SpecDrafts.        *)
(***************************************************************************)
\* C21: on the draft path of an account edit the draft handed to
\* updateDraftPreserveFields is the one whose tempId is the account id of the
\* page's route, and no stored account draft other than that one is modified.
C21_EditedDraftIsRouteDraft ==
  [][(HandlerStep /\ IsUpdate(lastCall')) =>
       /\ lastCall'.tempId = route
       /\ \A i \in DOMAIN drafts["account"] :
            Get(drafts["account"][i], "tempId") # S(route)
              => drafts'["account"][i] = drafts["account"][i]
    ]_vars

(***************************************************************************)
(* Campaign cache key claim, checked under Spec.                           *)
(***************************************************************************)
\* C22: after a successful campaign create or update, the cache entry the
\* campaign detail query reads for the campaign id (the key of useGetCampaign)
\* holds the normalized saved campaign: readers and writers share the key.
C22_DetailQueryReadsSavedCampaign ==
  [][\A m \in mutations, id \in CampaignIds :
       (\/ m.op = "update" /\ m.campaignId = id /\ UpdateSucceeds(m)
        \/ CreateSucceeds(m, id))
         => EntityIn(cache', QueryKey(CAMPAIGN_QUERY_KEY, id))
              = normalizeCampaignResponse(SavedCampaign(id, m.data))
    ]_vars

(***************************************************************************)
(* Token fetch claim, checked under SpecFetch.                             *)
(***************************************************************************)
\* a token fetch whose effect was cleaned up settles in this step
LateArrival(f) == f \in stale /\ stale' = stale \ {f}

\* C23: a token-fetch result that arrives after its issuing effect was
\* cleaned up (unmount, or an identity change that started a newer fetch) is
\* never applied to the hook's token or loading state; the request itself is
\* not cancelled, it stays in flight until it settles.
C23_LateTokenResultIgnored ==
  [][ /\ \A f \in stale : LateArrival(f) => (token' = token /\ loading' = loading)
      /\ \A f \in fetches :
           (f \notin fetches' /\ seenUser'[f.hook] # seenUser[f.hook])
             => f \in stale'
    ]_vars

\* the fetch for u1 was superseded by the fetch for u2 and the newer one has
\* answered: the hook holds the token of u2 while the request for u1, cleaned
\* up but not cancelled, is still in flight
C23_Witness ==
  /\ user # NoUser /\ user.id = "u2"
  /\ mounted[1]
  /\ token[1] = TokenOf["u2"]
  /\ ~loading[1]
  /\ fetches = {}
  /\ [hook |-> 1, uid |-> "u1"] \in stale

(***************************************************************************)
(* Exposed auth state claims, checked under SpecAuth.                      *)
(***************************************************************************)
\* C24: in every state useAuthState exposes, a non-null token was obtained
\* from the identity userInfo describes in that state; after an identity
\* change the previous identity's token is never exposed with the new
\* identity's userInfo.
C24_TokenBelongsToUserInfo ==
  \A h \in Hooks :
    (mounted[h] /\ authState[h].token # NullToken)
      => /\ authState[h].userInfo \in Users
         /\ authState[h].token = TokenOf[authState[h].userInfo]

(***************************************************************************)
(* API base path claim, checked under SpecFetch.                           *)
(***************************************************************************)
\* C25: getApiBasePath is '/api' exactly when the global auth state is
\* authenticated with a non-empty token and '/demo' in every other state;
\* while an identity is present and its token is not fetched yet the demo path
\* is used.
C25_ApiPathNeedsToken ==
  /\ getApiBasePath \in {"/api", "/demo"}
  /\ getApiBasePath = "/api"
       <=> (globalAuthState.isAuthenticated /\ globalAuthState.token # NullToken
              /\ globalAuthState.token # "")
  /\ (globalAuthState.isAuthenticated /\ globalAuthState.token = NullToken)
       => getApiBasePath = "/demo"

\* the identity is in the global store, its token is still being fetched
C25_Witness ==
  /\ globalAuthState.isAuthenticated
  /\ globalAuthState.token = NullToken
  /\ \E f \in fetches : f.uid = globalAuthState.userInfo
  /\ getApiBasePath = "/demo"

(***************************************************************************)
(* Stored account list claims, checked under SpecStorage.                  *)
(***************************************************************************)
NoDuplicateIds(list) ==
  \A i, j \in DOMAIN list : list[i].id = list[j].id => i = j

\* C26: starting from empty storage, after any sequence of account and
\* persona operations no two stored accounts share an id; saveTargetAccount
\* with a stored id replaces that account in place (same position, same
\* length) and with a new id appends it at the end; deleteTargetAccount
\* removes the account with the id and leaves the list as it was when the id
\* is absent.
C26_AccountIdsUnique ==
  [][LET before == localStorage.accounts
         after == localStorage'.accounts
         id == lsResult'.accountId
         idx == FindIndex(before, id)
     IN  /\ NoDuplicateIds(after)
         /\ (lsResult'.op = "saveTargetAccount" /\ ~lsResult'.threw) =>
              /\ Len(after) = IF idx > 0 THEN Len(before) ELSE Len(before) + 1
              /\ LET at == IF idx > 0 THEN idx ELSE Len(after)
                 IN  /\ after[at].id = id
                     /\ after[at] \in NewTargetAccounts
                     /\ \A j \in DOMAIN before : j # at => after[j] = before[j]
         /\ (lsResult'.op = "deleteTargetAccount" /\ ~lsResult'.threw) =>
              /\ FindIndex(after, id) = 0
              /\ idx = 0 => after = before
              /\ idx > 0 =>
                   /\ Len(after) = Len(before) - 1
                   /\ \A j \in DOMAIN after :
                        after[j] = before[IF j < idx THEN j ELSE j + 1]
    ]_vars

\* a1 was saved again while a1 and a2 were stored: it kept the first place
C26_Witness ==
  /\ lsResult.op = "saveTargetAccount"
  /\ lsResult.accountId = "a1"
  /\ ~lsResult.threw
  /\ localStorage.state = "json"
  /\ Len(localStorage.accounts) = 2
  /\ localStorage.accounts[1].id = "a1"
  /\ localStorage.accounts[2].id = "a2"

\* the personas of list other than those with the id, in their order
RECURSIVE Without(_, _)
Without(list, personaId) ==
  IF list = <<>> THEN <<>>
  ELSE IF list[Len(list)].id = personaId
       THEN Without(SubSeq(list, 1, Len(list) - 1), personaId)
       ELSE Append(Without(SubSeq(list, 1, Len(list) - 1), personaId),
                   list[Len(list)])

\* the number of personas stored in the accounts before position i
RECURSIVE PersonasBefore(_, _)
PersonasBefore(accounts, i) ==
  IF i = 1 THEN 0
  ELSE PersonasBefore(accounts, i - 1) + Len(accounts[i - 1].personas.list)

ModalCloses ==
  \/ firmographicsModalOpen /\ ~firmographicsModalOpen'
  \/ buyingSignalsModalOpen /\ ~buyingSignalsModalOpen'

ModalOpenAfter(modal) ==
  IF modal = "firmographics" THEN firmographicsModalOpen'
  ELSE buyingSignalsModalOpen'

CreateInvoked(i) ==
  /\ generations'[i].phase = "creating"
  /\ i \in DOMAIN generations => generations[i].phase # "creating"

C30_ShownSignalsAreEntitySignals ==
  (\A u \in accountUpdates : u.modal # "buyingSignals")
    => buyingSignals = SignalsOf(displayEntity)

====
